---- MODULE Spec2Model ----
(***************************************************************************)
(* Course-query resolution, date-window normalisation and catalogue search *)
(* of the targetai repository (lib/abbreviations.js, lib/dates.js,         *)
(* lib/products.js, pages/api/ask.js).                                     *)
(*                                                                         *)
(* Text is modelled character by character: a JavaScript string is a TLA+  *)
(* string, its i-th character is SubSeq(s, i, i).  null is the string      *)
(* NULL; the tri-state refresher flag is "true" / "false" / NULL.          *)
(***************************************************************************)
EXTENDS Integers, Sequences, FiniteSets, TLC

VARIABLES
  raw,        \* Text Normalizer: the argument of norm
  normed,     \* Text Normalizer: the value norm returned
  term,       \* resolver / validator: the query text
  resolved,   \* the value expandKeywords(term) returned
  qc,         \* the value validateCourseQuery returned
  dateText,   \* the argument nlText of normalizeDateWindow
  now,        \* the reference instant of normalizeDateWindow
  win,        \* the window normalizeDateWindow returned
  products,   \* the catalogue rows fetched for a search
  params,     \* the search parameters
  today,      \* the wall-clock instant read by diagnoseSearch
  found,      \* the value searchCoursesInMemory returned
  precise,    \* the value searchPrecisely returned
  diag,       \* the value diagnoseSearch returned
  callArgs,   \* tool route: the arguments of a search_courses call
  routed,     \* tool route: the value toolRouter returned
  userText,   \* location: the argument of detectUserLocationFromText
  detected,   \* location: the value detectUserLocationFromText returned
  requested,  \* location: the requested location given to matchLocation
  sessionName,\* location: the session name given to matchLocation
  libMatch,   \* the value matchLocation of lib/products.js returned
  askMatch,   \* the value matchLocation of pages/api/ask.js returned
  req,        \* API handler: the request (method, body.message)
  pc,         \* API handler: where the handler stands
  loopGuard,  \* API handler: the loop counter
  llmCalls,   \* API handler: calls made to openai.chat.completions.create
  toolCalls,  \* API handler: tool calls of the round not yet routed
  toolResults,\* API handler: the result of each tool, by tool name
  res         \* API handler: the responses sent, [status, body]

normVars   == <<raw, normed>>
queryVars  == <<term, resolved, qc>>
dateVars   == <<dateText, now, win>>
searchVars == <<products, params, today, found, precise, diag>>
routeVars  == <<callArgs, routed>>
locVars    == <<userText, detected, requested, sessionName, libMatch, askMatch>>
apiVars    == <<req, pc, loopGuard, llmCalls, toolCalls, toolResults, res>>
vars == <<normVars, queryVars, dateVars, searchVars, routeVars, locVars, apiVars>>

NULL == "null"

(***************************************************************************)
(* Bounds of the model.                                                    *)
(***************************************************************************)
MaxLen == 4        \* longest raw text given to norm
MaxModifiers == 1  \* modifier words appended to a catalogue phrase
MaxNows == 12      \* reference instants tried, seventeen days apart
MaxRows == 2       \* longest catalogue searched

(***************************************************************************)
(* Characters and regular-expression primitives.                           *)
(***************************************************************************)
LowerLetters ==
  {"a","b","c","d","e","f","g","h","i","j","k","l","m",
   "n","o","p","q","r","s","t","u","v","w","x","y","z"}
UpperLetters ==
  {"A","B","C","D","E","F","G","H","I","J","K","L","M",
   "N","O","P","Q","R","S","T","U","V","W","X","Y","Z"}
Digits == {"0","1","2","3","4","5","6","7","8","9"}

\* \w of a JavaScript regular expression
WordChars == LowerLetters \cup UpperLetters \cup Digits \cup {"_"}
\* \s of a JavaScript regular expression (the members that occur in the model)
SpaceChars == {" ", "\t", "\n"}

CharAt(s, i) == SubSeq(s, i, i)

\* String.prototype.includes
Includes(s, sub) ==
  \E i \in 1..(Len(s) - Len(sub) + 1) : SubSeq(s, i, i + Len(sub) - 1) = sub

\* A regular expression is run as a set of positions: position p stands
\* "before character p", Len(s)+1 is the end of the text.
Positions(s) == 1..(Len(s) + 1)

\* \b at position p
AtWordBoundary(s, p) ==
  LET before == p > 1 /\ CharAt(s, p - 1) \in WordChars
      after  == p <= Len(s) /\ CharAt(s, p) \in WordChars
  IN  before # after

ReBoundary(s, P) == {p \in P : AtWordBoundary(s, p)}

\* a literal
ReLit(s, P, w) ==
  {p + Len(w) : p \in {x \in P : x + Len(w) - 1 <= Len(s)
                                  /\ SubSeq(s, x, x + Len(w) - 1) = w}}

\* C* for a character class C
ReStar(s, P, C) ==
  {e \in Positions(s) : \E p \in P : p <= e /\ \A k \in p..(e - 1) : CharAt(s, k) \in C}

\* C+ for a character class C
RePlus(s, P, C) ==
  {e \in Positions(s) : \E p \in P : p < e /\ \A k \in p..(e - 1) : CharAt(s, k) \in C}

\* /\bw\b/.test(s)
HasWord(s, w) == ReBoundary(s, ReLit(s, ReBoundary(s, Positions(s)), w)) # {}

\* String.prototype.startsWith
StartsWith(s, w) == Len(w) <= Len(s) /\ SubSeq(s, 1, Len(w)) = w

\* the concatenation pieces[lo] \o ... \o pieces[hi] of strings, by halves
RECURSIVE JoinStr(_, _, _)
JoinStr(pieces, lo, hi) ==
  IF lo > hi THEN ""
  ELSE IF lo = hi THEN pieces[lo]
  ELSE LET mid == (lo + hi) \div 2
       IN  JoinStr(pieces, lo, mid) \o JoinStr(pieces, mid + 1, hi)

\* the concatenation pieces[lo] \o ... \o pieces[hi] of sequences, by halves
RECURSIVE JoinSeq(_, _, _)
JoinSeq(pieces, lo, hi) ==
  IF lo > hi THEN <<>>
  ELSE IF lo = hi THEN pieces[lo]
  ELSE LET mid == (lo + hi) \div 2
       IN  JoinSeq(pieces, lo, mid) \o JoinSeq(pieces, mid + 1, hi)

\* String.prototype.toLowerCase, one character
LowerOf ==
  [c \in UpperLetters \cup {"É"} |->
     CASE c = "A" -> "a" [] c = "B" -> "b" [] c = "C" -> "c" [] c = "D" -> "d"
       [] c = "E" -> "e" [] c = "F" -> "f" [] c = "G" -> "g" [] c = "H" -> "h"
       [] c = "I" -> "i" [] c = "J" -> "j" [] c = "K" -> "k" [] c = "L" -> "l"
       [] c = "M" -> "m" [] c = "N" -> "n" [] c = "O" -> "o" [] c = "P" -> "p"
       [] c = "Q" -> "q" [] c = "R" -> "r" [] c = "S" -> "s" [] c = "T" -> "t"
       [] c = "U" -> "u" [] c = "V" -> "v" [] c = "W" -> "w" [] c = "X" -> "x"
       [] c = "Y" -> "y" [] c = "Z" -> "z" [] c = "É" -> "é"]

ToLowerChar(c) == IF c \in DOMAIN LowerOf THEN LowerOf[c] ELSE c

toLowerCase(s) ==
  JoinStr([i \in 1..Len(s) |-> ToLowerChar(CharAt(s, i))], 1, Len(s))

\* U+0301 COMBINING ACUTE ACCENT is written as the spacing accent U+00B4
\* (a combining character cannot be written in a string of the module).
CombiningAcute == "´"
CombiningMarks == {CombiningAcute}

\* String.prototype.normalize("NFD"), one character
NFDChar(c) ==
  CASE c = "é" -> "e" \o CombiningAcute
    [] c = "É" -> "E" \o CombiningAcute
    [] OTHER   -> c

normalizeNFD(s) ==
  JoinStr([i \in 1..Len(s) |-> NFDChar(CharAt(s, i))], 1, Len(s))

\* .replace(/[\u0300-\u036f]/g, "")
StripCombining(s) ==
  JoinStr([i \in 1..Len(s) |->
             IF CharAt(s, i) \in CombiningMarks THEN "" ELSE CharAt(s, i)],
          1, Len(s))

\* .replace(/[C]+/g, " ") for the complement of Keep: every maximal run of
\* characters outside Keep becomes one space
ReplaceRunsOutside(s, Keep) ==
  JoinStr([i \in 1..Len(s) |->
             IF CharAt(s, i) \in Keep THEN CharAt(s, i)
             ELSE IF i > 1 /\ CharAt(s, i - 1) \notin Keep THEN ""
             ELSE " "],
          1, Len(s))

\* .replace(/\s+/g, " ")
CollapseSpaces(s) ==
  JoinStr([i \in 1..Len(s) |->
             IF CharAt(s, i) \notin SpaceChars THEN CharAt(s, i)
             ELSE IF i > 1 /\ CharAt(s, i - 1) \in SpaceChars THEN ""
             ELSE " "],
          1, Len(s))

\* String.prototype.trim
trim(s) ==
  LET NonSpace == {i \in 1..Len(s) : CharAt(s, i) \notin SpaceChars}
      Min(S) == CHOOSE x \in S : \A y \in S : x <= y
      Max(S) == CHOOSE x \in S : \A y \in S : x >= y
  IN  IF NonSpace = {} THEN "" ELSE SubSeq(s, Min(NonSpace), Max(NonSpace))

\* the characters norm keeps: [a-z0-9+& ]
NormKeep == LowerLetters \cup Digits \cup {"+", "&", " "}

\* norm with the white-space collapse done before the punctuation is replaced
norm_CollapseFirst(s) ==
  trim(ReplaceRunsOutside(CollapseSpaces(
         StripCombining(normalizeNFD(toLowerCase(s)))), NormKeep))

\* abbreviations.js norm
norm(s) ==
  trim(CollapseSpaces(ReplaceRunsOutside(
         StripCombining(normalizeNFD(toLowerCase(s))), NormKeep)))

(***************************************************************************)
(* The family catalogue and the tables derived from it.                    *)
(***************************************************************************)
\* abbreviations.js MAP: the family catalogue, in source order
MAP ==
  <<
    [family  |-> "SMSTS",
     aliases |-> <<
       "smsts", "citb smsts", "site management safety training scheme",
       "site managers safety training scheme",
       "site manager safety training scheme", "site management safety",
       "smsts course">>],
    [family  |-> "SMSTS Refresher",
     aliases |-> <<
       "smsts refresher", "smsts-r", "citb smsts refresher",
       "site management safety training scheme refresher",
       "site managers safety training scheme refresher", "smsts renewal",
       "smsts update", "smsts refresh">>],
    [family  |-> "SSSTS",
     aliases |-> <<
       "sssts", "citb sssts", "site supervisors safety training scheme",
       "site supervisor safety training scheme", "site supervisors safety",
       "supervisors safety training scheme", "sssts course">>],
    [family  |-> "SSSTS Refresher",
     aliases |-> <<
       "sssts refresher", "sssts-r", "citb sssts refresher",
       "site supervisors safety training scheme refresher",
       "sssts renewal", "sssts update", "sssts refresh">>],
    [family  |-> "HSA",
     aliases |-> <<
       "hsa", "health and safety awareness", "health & safety awareness",
       "health and safety awareness courses", "health and safety",
       "health & safety", "h&s", "hsa course",
       "citb health and safety awareness", "citb hsa">>],
    [family  |-> "TWC",
     aliases |-> <<
       "twc", "citb twc", "temporary works coordinator",
       "temporary works co ordinator", "temporary works co-ordinator",
       "temporary works coordinator course",
       "temporary works co ordinator course", "tw coordinator",
       "tw co-ordinator", "twc course">>],
    [family  |-> "TWC Refresher",
     aliases |-> <<
       "twc refresher", "citb twc refresher",
       "temporary works coordinator refresher",
       "temporary works co-ordinator refresher", "twc renewal",
       "twc update", "twc refresh">>],
    [family  |-> "TWS",
     aliases |-> <<
       "tws", "citb tws", "temporary works supervisor",
       "temporary work supervisor", "tw supervisor", "tws course">>],
    [family  |-> "NEBOSH General",
     aliases |-> <<
       "nebosh general", "nebosh ngc",
       "nebosh national general certificate", "nebosh certificate general",
       "nebosh health and safety", "nebosh h&s", "nebosh">>],
    [family  |-> "NEBOSH Construction",
     aliases |-> <<
       "nebosh construction", "nebosh ncc",
       "nebosh national certificate in construction",
       "nebosh construction certificate", "nebosh construction safety">>],
    [family  |-> "IOSH Managing Safely",
     aliases |-> <<
       "iosh managing safely", "managing safely", "iosh ms",
       "iosh manage safely", "iosh managing">>],
    [family  |-> "IOSH Working Safely",
     aliases |-> <<
       "iosh working safely", "working safely", "iosh ws", "iosh working">>],
    [family  |-> "IEMA",
     aliases |-> <<
       "iema", "iema foundation", "iema environmental management",
       "iema sustainability", "iema course", "environmental",
       "environmental management",
       "foundation certificate in environmental management",
       "foundation in environmental management">>],
    [family  |-> "MHFA",
     aliases |-> <<
       "mhfa", "mental health first aid", "mental health first aid course",
       "mhfa course", "mhfa england", "mental health first aid 2 day",
       "mhfa 2 day", "mhfa two day", "first aid">>],
    [family  |-> "SEATS",
     aliases |-> <<
       "seats", "site environmental awareness training scheme",
       "site environmental awareness", "citb seats">>],
    [family  |-> "EUSR Water Hygiene AM",
     aliases |-> <<
       "eusr water hygiene am", "water hygiene am session",
       "am water hygiene", "eusr am", "am session water hygiene",
       "water hygiene morning", "morning water hygiene">>],
    [family  |-> "EUSR Water Hygiene PM",
     aliases |-> <<
       "eusr water hygiene pm", "water hygiene pm session",
       "pm water hygiene", "eusr pm", "pm session water hygiene",
       "water hygiene afternoon", "afternoon water hygiene">>]
  >>

EndsWith(s, w) == Len(w) <= Len(s) /\ SubSeq(s, Len(s) - Len(w) + 1, Len(s)) = w

\* /refresher$/i.test(f)
IsRefresherEntry(f) == EndsWith(toLowerCase(f), "refresher")

\* f.replace(/\s+Refresher$/i, ""): the entry name without a trailing
\* "Refresher" and the white space before it
BaseFamily(f) ==
  LET cut == Len(f) - Len("refresher")   \* last character before the word
      Lead == {k \in 1..cut : \A j \in k..cut : CharAt(f, j) \in SpaceChars}
  IN  IF IsRefresherEntry(f) /\ Lead # {}
      THEN SubSeq(f, 1, (CHOOSE k \in Lead : \A j \in Lead : k <= j) - 1)
      ELSE f

\* the members of a sequence in order of first occurrence (a JavaScript Set)
Distinct(seq) ==
  JoinSeq([i \in 1..Len(seq) |->
             IF \E j \in 1..(i - 1) : seq[j] = seq[i] THEN <<>> ELSE <<seq[i]>>],
          1, Len(seq))

REFRESHER_AVAILABLE ==
  Distinct(JoinSeq([i \in 1..Len(MAP) |->
                      IF IsRefresherEntry(MAP[i].family)
                      THEN <<BaseFamily(MAP[i].family)>> ELSE <<>>],
                   1, Len(MAP)))

FAMILIES == Distinct([i \in 1..Len(MAP) |-> BaseFamily(MAP[i].family)])

InSeq(x, seq) == \E i \in 1..Len(seq) : seq[i] = x

\* every (alias, family) pair of MAP, in source order
AliasPairs ==
  JoinSeq([n \in 1..Len(MAP) |->
             [k \in 1..Len(MAP[n].aliases) |->
                [alias  |-> norm(MAP[n].aliases[k]),
                 family |-> BaseFamily(MAP[n].family)]]],
          1, Len(MAP))

\* dict[key] = value for each pair in turn: a key keeps the place of its
\* first assignment and the value of its last
DictOf(pairs) ==
  JoinSeq([i \in 1..Len(pairs) |->
             IF \E j \in 1..(i - 1) : pairs[j].alias = pairs[i].alias THEN <<>>
             ELSE LET same == {j \in i..Len(pairs) : pairs[j].alias = pairs[i].alias}
                  IN  <<pairs[CHOOSE j \in same : \A k \in same : k <= j]>>],
          1, Len(pairs))

\* Object.entries(ALIAS_TO_FAMILY), in insertion order
ALIAS_TO_FAMILY == DictOf(AliasPairs)

(***************************************************************************)
(* Refresher detection and edit distance.                                  *)
(***************************************************************************)
\* detectRefresher with substring tests in place of whole-word tests
detectRefresher_Substring(text) ==
  LET t == norm(text)
  IN  IF Includes(t, "refresher") \/ Includes(t, "renewal")
         \/ Includes(t, "update") \/ Includes(t, "refresh") THEN "true"
      ELSE IF Includes(t, "standard") THEN "false"
      ELSE NULL

detectRefresher(text) ==
  LET t == norm(text)
  IN  IF HasWord(t, "refresher") \/ HasWord(t, "renewal")
         \/ HasWord(t, "update") \/ HasWord(t, "refresh") THEN "true"
      ELSE IF HasWord(t, "standard") THEN "false"
      ELSE NULL

Min2(x, y) == IF x <= y THEN x ELSE y

\* the cells dp[i][lo..hi] of one row, appended to acc = dp[i][0..lo-1];
\* prev is the row dp[i-1][0..n] (cell j is element j+1 of a row).  The
\* left half is evaluated (its length taken) before the right half starts.
RECURSIVE LevRow(_, _, _, _, _, _)
LevRow(prev, ai, b, lo, hi, acc) ==
  IF lo > hi THEN acc
  ELSE IF lo = hi THEN
    LET cost == IF ai = CharAt(b, lo) THEN 0 ELSE 1
    IN  Append(acc, Min2(Min2(prev[lo + 1] + 1, acc[lo] + 1), prev[lo] + cost))
  ELSE LET mid  == (lo + hi) \div 2
           left == LevRow(prev, ai, b, lo, mid, acc)
       IN  IF Len(left) = mid + 1 THEN LevRow(prev, ai, b, mid + 1, hi, left)
           ELSE left

\* the row dp[hi] computed from prev = dp[lo-1]
RECURSIVE LevRows(_, _, _, _, _)
LevRows(a, b, lo, hi, prev) ==
  IF lo > hi THEN prev
  ELSE IF lo = hi THEN LevRow(prev, CharAt(a, lo), b, 1, Len(b), <<lo>>)
  ELSE LET mid   == (lo + hi) \div 2
           upper == LevRows(a, b, lo, mid, prev)
       IN  IF Len(upper) = Len(b) + 1 THEN LevRows(a, b, mid + 1, hi, upper)
           ELSE upper

levenshtein(a0, b0) ==
  LET a == norm(a0)
      b == norm(b0)
  IN  IF Len(a) = 0 THEN Len(b)
      ELSE IF Len(b) = 0 THEN Len(a)
      ELSE LevRows(a, b, 1, Len(a), [j \in 1..(Len(b) + 1) |-> j - 1])[Len(b) + 1]

\* Array.prototype.sort with comparator (a,b) => a.dist - b.dist: stable
RECURSIVE SortByDist(_)
SortByDist(seq) ==
  IF seq = <<>> THEN <<>>
  ELSE LET init == SortByDist(SubSeq(seq, 1, Len(seq) - 1))
           x    == seq[Len(seq)]
           k    == Cardinality({i \in 1..Len(init) : init[i].dist <= x.dist})
       IN  SubSeq(init, 1, k) \o <<x>> \o SubSeq(init, k + 1, Len(init))

\* f.split(" ")[0]
FirstToken(f) ==
  LET sp == {i \in 1..Len(f) : CharAt(f, i) = " "}
  IN  IF sp = {} THEN f
      ELSE SubSeq(f, 1, (CHOOSE i \in sp : \A j \in sp : i <= j) - 1)

RECURSIVE FilterMaxDist(_, _)
FilterMaxDist(seq, d) ==
  IF seq = <<>> THEN <<>>
  ELSE IF Head(seq).dist <= d THEN <<Head(seq)>> \o FilterMaxDist(Tail(seq), d)
       ELSE FilterMaxDist(Tail(seq), d)

\* Array.prototype.slice(0, n)
Slice0(seq, n) == SubSeq(seq, 1, Min2(n, Len(seq)))

SuggestMaxDist == 3
DefaultLimit == 3

\* closestFamilies without the distance cut-off
closestFamilies_NoCutoff(t, limit) ==
  LET q      == norm(t)
      scored == SortByDist([i \in 1..Len(FAMILIES) |->
                  [family |-> FAMILIES[i],
                   dist   |-> Min2(levenshtein(q, FAMILIES[i]),
                                   levenshtein(q, FirstToken(FAMILIES[i])))]])
      near   == Slice0(scored, limit)
  IN  [i \in 1..Len(near) |-> near[i].family]

closestFamilies(t, limit) ==
  LET q      == norm(t)
      scored == SortByDist([i \in 1..Len(FAMILIES) |->
                  [family |-> FAMILIES[i],
                   dist   |-> Min2(levenshtein(q, FAMILIES[i]),
                                   levenshtein(q, FirstToken(FAMILIES[i])))]])
      near   == Slice0(FilterMaxDist(scored, SuggestMaxDist), limit)
  IN  [i \in 1..Len(near) |-> near[i].family]

(***************************************************************************)
(* Family resolution (expandKeywords) and the catalogue validator.         *)
(***************************************************************************)
\* the bare acronyms of step 2, in source order, and what each maps to
AcrHits ==
  << [acr |-> "smsts",  family |-> "SMSTS"],  [acr |-> "sssts", family |-> "SSSTS"],
     [acr |-> "twc",    family |-> "TWC"],    [acr |-> "tws",   family |-> "TWS"],
     [acr |-> "seats",  family |-> "SEATS"],  [acr |-> "eusr",  family |-> "EUSR"],
     [acr |-> "hsa",    family |-> "HSA"],    [acr |-> "nebosh", family |-> "NEBOSH"],
     [acr |-> "iema",   family |-> "IEMA"],   [acr |-> "mhfa",  family |-> "MHFA"],
     [acr |-> "iosh",   family |-> "IOSH"] >>

\* the first member of a sequence of [.., family] records whose key the
\* text includes (for..break over the alias table, Array.prototype.find)
FirstHit(hits) ==
  IF hits = {} THEN 0 ELSE CHOOSE i \in hits : \A j \in hits : i <= j

\* /\bhealth(?:\s*&|\s*and)?\s*safety\b/.test(q)
HealthSafetyRe(q) ==
  LET p1 == ReLit(q, ReBoundary(q, Positions(q)), "health")
      p2 == p1 \cup ReLit(q, ReStar(q, p1, SpaceChars), "&")
               \cup ReLit(q, ReStar(q, p1, SpaceChars), "and")
      p3 == ReLit(q, ReStar(q, p2, SpaceChars), "safety")
  IN  ReBoundary(q, p3) # {}

ManagingRe(q) == HasWord(q, "managing safely") \/ HasWord(q, "iosh managing")
WorkingRe(q)  == HasWord(q, "working safely") \/ HasWord(q, "iosh working")
AmRe(q) == HasWord(q, "am") \/ HasWord(q, "morning")
PmRe(q) == HasWord(q, "pm") \/ HasWord(q, "afternoon")

\* 1) the family of the first alias of the table that the text includes
AliasFamily(q) ==
  LET hit == FirstHit({i \in 1..Len(ALIAS_TO_FAMILY) :
                         Includes(q, ALIAS_TO_FAMILY[i].alias)})
  IN  IF hit = 0 THEN NULL ELSE ALIAS_TO_FAMILY[hit].family

\* acrHits.find(a => q.includes(a)), mapped by mapAcr
AcronymFamily(q) ==
  LET hit == FirstHit({i \in 1..Len(AcrHits) : Includes(q, AcrHits[i].acr)})
  IN  IF hit = 0 THEN NULL ELSE AcrHits[hit].family

\* 2) without an alias: the acronym, else the IOSH phrases, else water hygiene
HeuristicFamily(q, acr) ==
  IF acr # NULL THEN acr
  ELSE IF ManagingRe(q) THEN "IOSH Managing Safely"
  ELSE IF WorkingRe(q) THEN "IOSH Working Safely"
  ELSE IF ~HasWord(q, "water hygiene") THEN NULL
  ELSE IF AmRe(q) THEN "EUSR Water Hygiene AM"
  ELSE IF PmRe(q) THEN "EUSR Water Hygiene PM"
  ELSE "EUSR"

WithHeuristics(q, family) ==
  IF family # NULL THEN family ELSE HeuristicFamily(q, AcronymFamily(q))

\* HSA fallback: 'health and safety' without 'nebosh' / 'iosh'
WithHSAFallback(q, family) ==
  IF family = NULL /\ HealthSafetyRe(q)
     /\ ~(HasWord(q, "nebosh") \/ HasWord(q, "iosh"))
  THEN "HSA" ELSE family

WithNeboshConstruction(q, family) ==
  IF family = "NEBOSH General" /\ Includes(q, "construction")
  THEN "NEBOSH Construction" ELSE family

\* ambiguous NEBOSH -> "NEBOSH"
WithNeboshGeneric(q, family) ==
  IF family # NULL /\ StartsWith(family, "NEBOSH")
     /\ ~Includes(q, "general") /\ ~Includes(q, "construction")
  THEN "NEBOSH" ELSE family

\* IOSH generic -> variant
SpecializeIOSH(q, family) ==
  IF family # "IOSH" THEN family
  ELSE IF ManagingRe(q) THEN "IOSH Managing Safely"
  ELSE IF WorkingRe(q) THEN "IOSH Working Safely"
  ELSE family

\* EUSR generic -> AM/PM
SpecializeEUSR(q, family) ==
  IF family # "EUSR" THEN family
  ELSE IF AmRe(q) THEN "EUSR Water Hygiene AM"
  ELSE IF PmRe(q) THEN "EUSR Water Hygiene PM"
  ELSE family

\* the family expandKeywords settles on for the normalized text q
FamilyOf(q) ==
  SpecializeEUSR(q,
    SpecializeIOSH(q,
      WithNeboshGeneric(q,
        WithNeboshConstruction(q,
          WithHSAFallback(q,
            WithHeuristics(q, AliasFamily(q)))))))

ExpandNormalized(q) ==
  [family |-> FamilyOf(q), refresher |-> detectRefresher(q), tokens |-> <<q>>]

expandKeywords(t) ==
  IF t = "" THEN [family |-> NULL, refresher |-> NULL, tokens |-> <<>>]
  ELSE ExpandNormalized(norm(t))

\* the suggestions of the missing-family branch: each close family, followed
\* by its Refresher variant when it has one
RECURSIVE MissingFamilySuggestions(_)
MissingFamilySuggestions(fams) ==
  IF fams = <<>> THEN <<>>
  ELSE LET f == Head(fams)
       IN  <<[label |-> f]>>
           \o (IF InSeq(f, REFRESHER_AVAILABLE)
               THEN <<[label |-> f \o " Refresher"]>> ELSE <<>>)
           \o MissingFamilySuggestions(Tail(fams))

\* NearRefreshers without the sort by distance
NearRefreshers_Unsorted(family) ==
  LET near == Slice0(REFRESHER_AVAILABLE, 2)
  IN  [i \in 1..Len(near) |-> [label |-> near[i] \o " Refresher"]]

\* the two refresher-capable families nearest to the requested family
NearRefreshers(family) ==
  LET scored == SortByDist([i \in 1..Len(REFRESHER_AVAILABLE) |->
                  [family |-> REFRESHER_AVAILABLE[i],
                   dist   |-> levenshtein(REFRESHER_AVAILABLE[i], family)]])
      near   == Slice0(scored, 2)
  IN  [i \in 1..Len(near) |-> [label |-> near[i].family \o " Refresher"]]

\* the generic test with the EUSR placeholder forgotten
IsGenericFamily_OnlyIOSH(family) == family = "IOSH"

\* the generic placeholder families, which need a forced follow-up
IsGenericFamily(family) == family = "IOSH" \/ family = "EUSR"

\* the two concrete child variants offered for a generic family
GenericVariants(family) ==
  IF family = "IOSH"
  THEN <<[label |-> "IOSH Managing Safely"], [label |-> "IOSH Working Safely"]>>
  ELSE <<[label |-> "EUSR Water Hygiene AM"], [label |-> "EUSR Water Hygiene PM"]>>

\* the normalized family with the Refresher suffix never appended
NormalizedFamilyOf_Base(family, refresher) == family

\* refresher === true ? `${family} Refresher` : family
NormalizedFamilyOf(family, refresher) ==
  IF refresher = "true" THEN family \o " Refresher" ELSE family

\* validateCourseQuery once the term is resolved to family and refresher
ValidateResolved(t, family, refresher) ==
  IF family = NULL THEN
    [recognizedFamily |-> NULL, refresherRequested |-> refresher,
     exists |-> FALSE, normalizedFamily |-> NULL, reason |-> "missing_family",
     suggestions |-> MissingFamilySuggestions(closestFamilies(t, DefaultLimit))]
  ELSE IF IsGenericFamily(family) THEN
    [recognizedFamily |-> family, refresherRequested |-> refresher,
     exists |-> FALSE, normalizedFamily |-> NULL, reason |-> "needs_variant",
     suggestions |-> GenericVariants(family)]
  ELSE IF refresher = "true" /\ ~InSeq(family, REFRESHER_AVAILABLE) THEN
    [recognizedFamily |-> family, refresherRequested |-> "true",
     exists |-> FALSE, normalizedFamily |-> NULL, reason |-> "variant_not_offered",
     suggestions |-> <<[label |-> family \o " (Standard)"]>>
                     \o NearRefreshers(family)]
  ELSE
    [recognizedFamily |-> family, refresherRequested |-> refresher,
     exists |-> TRUE,
     normalizedFamily |-> NormalizedFamilyOf(family, refresher),
     reason |-> "ok", suggestions |-> <<>>]

validateCourseQuery(t) ==
  ValidateResolved(t, expandKeywords(t).family, expandKeywords(t).refresher)

(***************************************************************************)
(* Dates (lib/dates.js).  An instant is a whole number of hours since      *)
(* 1970-01-01T00:00Z; a Date at UTC midnight is a multiple of HoursPerDay. *)
(***************************************************************************)
HoursPerDay == 24

MONTHS ==
  << "january", "february", "march", "april", "may", "june", "july",
     "august", "september", "october", "november", "december" >>

\* MONTHS[key]: the month number 0..11 of a month name, -1 when undefined
MonthIndex(key) ==
  IF \E i \in 1..12 : MONTHS[i] = key
  THEN (CHOOSE i \in 1..12 : MONTHS[i] = key) - 1
  ELSE -1

\* days from 1970-01-01 to the civil date y-m-d (m in 1..12)
DaysFromCivil(y, m, d) ==
  LET yy  == IF m <= 2 THEN y - 1 ELSE y
      era == yy \div 400
      yoe == yy - era * 400
      mp  == IF m > 2 THEN m - 3 ELSE m + 9
      doy == (153 * mp + 2) \div 5 + d - 1
      doe == yoe * 365 + yoe \div 4 - yoe \div 100 + doy
  IN  era * 146097 + doe - 719468

\* the civil date of a day number
CivilFromDays(z0) ==
  LET z   == z0 + 719468
      era == z \div 146097
      doe == z - era * 146097
      yoe == (doe - doe \div 1460 + doe \div 36524 - doe \div 146096) \div 365
      doy == doe - (365 * yoe + yoe \div 4 - yoe \div 100)
      mp  == (5 * doy + 2) \div 153
      d   == doy - (153 * mp + 2) \div 5 + 1
      m   == IF mp < 10 THEN mp + 3 ELSE mp - 9
      y   == yoe + era * 400 + (IF m <= 2 THEN 1 ELSE 0)
  IN  [year |-> y, month |-> m, day |-> d]

\* new Date(Date.UTC(y, m, d, 0, 0, 0)): the month is 0-based and, like the
\* day, may lie outside its range; a year 0..99 counts from 1900
utcDate(y, m, d) ==
  LET y1 == IF y >= 0 /\ y <= 99 THEN 1900 + y ELSE y
      yn == y1 + m \div 12
      mn == m % 12
  IN  (DaysFromCivil(yn, mn + 1, 1) + d - 1) * HoursPerDay

monthStartUTC(y, m) == utcDate(y, m, 1)

\* variant: every month taken to have thirty days
monthEndUTC_ThirtyDays(y, m) == utcDate(y, m, 30)

monthEndUTC(y, m) == utcDate(y, m + 1, 0)

getUTCFullYear(t) == CivilFromDays(t \div HoursPerDay).year
getUTCMonth(t)    == CivilFromDays(t \div HoursPerDay).month - 1
getUTCDate(t)     == CivilFromDays(t \div HoursPerDay).day
\* 0..6 = Sunday..Saturday; 1970-01-01 was a Thursday
getUTCDay(t)      == (t \div HoursPerDay + 4) % 7

\* variant: the reference instant is used as given
toUTC00_KeepHours(t) == t

\* setUTCHours(0,0,0,0)
toUTC00(t) == (t \div HoursPerDay) * HoursPerDay

\* the first position at or after p whose character is not in class C
SkipWhile(s, p, C) ==
  LET stops == {e \in p..(Len(s) + 1) : e = Len(s) + 1 \/ CharAt(s, e) \notin C}
  IN  CHOOSE e \in stops : \A x \in stops : e <= x

LitAt(s, p, w) == p + Len(w) - 1 <= Len(s) /\ SubSeq(s, p, p + Len(w) - 1) = w

MinOf(S) == CHOOSE x \in S : \A y \in S : x <= y

DigitValue(c) ==
  CASE c = "0" -> 0 [] c = "1" -> 1 [] c = "2" -> 2 [] c = "3" -> 3 [] c = "4" -> 4
    [] c = "5" -> 5 [] c = "6" -> 6 [] c = "7" -> 7 [] c = "8" -> 8 [] c = "9" -> 9

\* parseInt(s, 10) of a text of digits
RECURSIVE ParseDigits(_)
ParseDigits(s) ==
  IF s = "" THEN 0
  ELSE 10 * ParseDigits(SubSeq(s, 1, Len(s) - 1)) + DigitValue(CharAt(s, Len(s)))

\* /\bany\s*time\b|\banytime\b|\bwhenever\b/.test(q)
AnytimeRe(q) ==
  \/ ReBoundary(q, ReLit(q, ReStar(q, ReLit(q, ReBoundary(q, Positions(q)), "any"),
                                   SpaceChars), "time")) # {}
  \/ HasWord(q, "anytime")
  \/ HasWord(q, "whenever")

\* /next\s*week/.test(q)
NextWeekRe(q) ==
  ReLit(q, ReStar(q, ReLit(q, Positions(q), "next"), SpaceChars), "week") # {}

\* q.match(/<word>\s*(\d+)\s*weeks?/): the digits captured by the leftmost
\* match, "" when there is no match
WeeksMatch(q, word) ==
  LET DigitsFrom(p) == LET a == SkipWhile(q, p + Len(word), SpaceChars)
                       IN  SubSeq(q, a, SkipWhile(q, a, Digits) - 1)
      Ok(p) == LET a == SkipWhile(q, p + Len(word), SpaceChars)
                   b == SkipWhile(q, a, Digits)
               IN  /\ LitAt(q, p, word)
                   /\ b > a
                   /\ LitAt(q, SkipWhile(q, b, SpaceChars), "week")
      starts == {p \in 1..Len(q) : Ok(p)}
  IN  IF starts = {} THEN "" ELSE DigitsFrom(MinOf(starts))

Rels == {"after", "later than", "from"}
OrdinalSuffixes == {"st", "nd", "rd", "th"}

\* q.match(dayMonthRe), dayMonthRe =
\*   /\b(after|later than|from)\s+(\d{1,2})(st|nd|rd|th)?\s+(january|...|december)\b/
\* the set of matches [at, rel, dayStr, monthStr]
DayMonthMatches(q) ==
  {m \in [at : {p \in 1..Len(q) : AtWordBoundary(q, p)}, rel : Rels,
          monthStr : {MONTHS[i] : i \in 1..12}] :
     LET p1 == m.at + Len(m.rel)
         a  == SkipWhile(q, p1, SpaceChars)
         b  == SkipWhile(q, a, Digits)
         c  == IF \E x \in OrdinalSuffixes : LitAt(q, b, x) THEN b + 2 ELSE b
         d  == SkipWhile(q, c, SpaceChars)
     IN  /\ LitAt(q, m.at, m.rel)
         /\ a > p1
         /\ b - a \in {1, 2}
         /\ d > c
         /\ LitAt(q, d, m.monthStr)
         /\ AtWordBoundary(q, d + Len(m.monthStr))}

\* the day digits captured by a match of dayMonthRe
DayStrOf(q, m) ==
  LET a == SkipWhile(q, m.at + Len(m.rel), SpaceChars)
  IN  SubSeq(q, a, SkipWhile(q, a, Digits) - 1)

\* q.match(/end of (\w+)/): the word captured by the leftmost match, ""
\* when there is no match
EndOfMatch(q) ==
  LET starts == {p \in 1..Len(q) :
                   /\ LitAt(q, p, "end of ")
                   /\ SkipWhile(q, p + 7, WordChars) > p + 7}
      p0 == MinOf(starts)
  IN  IF starts = {} THEN "" ELSE SubSeq(q, p0 + 7, SkipWhile(q, p0 + 7, WordChars) - 1)

\* the year a named month falls in: next year when the month is before
\* the month of NOW
RollYear(NOW, month) ==
  getUTCFullYear(NOW) + (IF month < getUTCMonth(NOW) THEN 1 ELSE 0)

\* variant: a Monday counts as the Monday looked for
DeltaToMonday_MondayStays(dow) == (8 - (IF dow = 0 THEN 7 ELSE dow)) % 7

\* let delta = (8 - (dow || 7)) % 7; if (delta === 0) delta = 7;
DeltaToMonday(dow) ==
  LET delta == (8 - (IF dow = 0 THEN 7 ELSE dow)) % 7
  IN  IF delta = 0 THEN 7 ELSE delta

DefaultWindowDays == 56
EndOfMonthFirstDay == 25

\* dates.js normalizeDateWindow(nlText, now)
normalizeDateWindow(nlText, nowT) ==
  LET NOW == toUTC00(nowT)
      y0  == getUTCFullYear(NOW)
      m0  == getUTCMonth(NOW)
      d0  == getUTCDate(NOW)
      q   == trim(toLowerCase(nlText))
      inWeeks   == WeeksMatch(q, "in")
      nextWeeks == WeeksMatch(q, "next")
      mDM       == DayMonthMatches(q)
      endOf     == EndOfMatch(q)
      named     == {i \in 1..12 : Includes(q, MONTHS[i])}
  IN  IF nlText = "" THEN
        [start |-> NOW, end |-> utcDate(y0, m0, d0 + DefaultWindowDays),
         label |-> "next 8 weeks"]
      ELSE IF AnytimeRe(q) THEN
        [start |-> NOW, end |-> utcDate(y0 + 1, m0, d0),
         label |-> "anytime (next 12 months)"]
      ELSE IF HasWord(q, "this month") THEN
        [start |-> monthStartUTC(y0, m0), end |-> monthEndUTC(y0, m0),
         label |-> "this month"]
      ELSE IF HasWord(q, "next month") THEN
        LET m == (m0 + 1) % 12
            y == y0 + (IF m0 = 11 THEN 1 ELSE 0)
        IN  [start |-> monthStartUTC(y, m), end |-> monthEndUTC(y, m),
             label |-> "next month"]
      ELSE IF NextWeekRe(q) THEN
        LET s == utcDate(y0, m0, d0 + DeltaToMonday(getUTCDay(NOW)))
        IN  [start |-> s,
             end   |-> utcDate(getUTCFullYear(s), getUTCMonth(s), getUTCDate(s) + 6),
             label |-> "next week"]
      ELSE IF inWeeks # "" THEN
        LET n == ParseDigits(inWeeks)
            s == utcDate(y0, m0, d0 + n * 7)
        IN  [start |-> s,
             end   |-> utcDate(getUTCFullYear(s), getUTCMonth(s), getUTCDate(s) + 6),
             label |-> "in " \o ToString(n) \o " week(s)"]
      ELSE IF nextWeeks # "" THEN
        LET n == ParseDigits(nextWeeks)
        IN  [start |-> NOW, end |-> utcDate(y0, m0, d0 + n * 7),
             label |-> "next " \o ToString(n) \o " week(s)"]
      ELSE IF mDM # {} THEN
        LET m       == CHOOSE x \in mDM : \A z \in mDM : x.at <= z.at
            day     == ParseDigits(DayStrOf(q, m))
            month   == MonthIndex(m.monthStr)
            year    == RollYear(NOW, month)
            baseDay == IF m.rel = "from" THEN day ELSE day + 1
        IN  [start |-> utcDate(year, month, baseDay), end |-> monthEndUTC(year, month),
             label |-> m.rel \o " " \o ToString(day) \o " " \o m.monthStr]
      ELSE IF endOf # "" /\ MonthIndex(endOf) # -1 THEN
        LET mVal == MonthIndex(endOf)
            y    == RollYear(NOW, mVal)
        IN  [start |-> utcDate(y, mVal, EndOfMonthFirstDay), end |-> monthEndUTC(y, mVal),
             label |-> "end of " \o endOf]
      ELSE IF named # {} THEN
        LET mVal == MinOf(named) - 1
            y    == RollYear(NOW, mVal)
        IN  [start |-> monthStartUTC(y, mVal), end |-> monthEndUTC(y, mVal),
             label |-> MONTHS[mVal + 1]]
      ELSE
        [start |-> NOW, end |-> utcDate(y0, m0, d0 + DefaultWindowDays),
         label |-> "next 8 weeks"]

(***************************************************************************)
(* Loose dates and prices.  A value that may be null (a parsed date, a     *)
(* bound of a date range, a date range) is a sequence: <<>> for null,      *)
(* <<v>> for the value v.                                                  *)
(***************************************************************************)
\* String.prototype.split(sep) for a one-character separator
Split(s, sep) ==
  LET seps == {i \in 1..Len(s) : CharAt(s, i) = sep}
      n    == Cardinality(seps) + 1
      SepAt(k) == IF k = 0 THEN 0
                  ELSE IF k = n THEN Len(s) + 1
                  ELSE CHOOSE i \in seps : Cardinality({j \in seps : j < i}) = k - 1
  IN  [k \in 1..n |-> SubSeq(s, SepAt(k - 1) + 1, SepAt(k) - 1)]

\* .filter(Boolean) on an array of strings
FilterNonEmpty(parts) ==
  JoinSeq([k \in 1..Len(parts) |-> IF parts[k] = "" THEN <<>> ELSE <<parts[k]>>],
          1, Len(parts))

\* s.replace(/\b(\d{1,2})(st|nd|rd|th)\b/gi, "$1")
stripOrdinals(s) ==
  LET IsSuffixStart(b) ==
        /\ b + 1 <= Len(s)
        /\ toLowerCase(SubSeq(s, b, b + 1)) \in OrdinalSuffixes
        /\ AtWordBoundary(s, b + 2)
        /\ \E a \in {b - 1, b - 2} :
             /\ a >= 1
             /\ \A k \in a..(b - 1) : CharAt(s, k) \in Digits
             /\ AtWordBoundary(s, a)
  IN  JoinStr([i \in 1..Len(s) |->
                 IF IsSuffixStart(i) \/ (i > 1 /\ IsSuffixStart(i - 1)) THEN ""
                 ELSE CharAt(s, i)],
              1, Len(s))

\* s.replace(/,/g, "")
RemoveCommas(s) ==
  JoinStr([i \in 1..Len(s) |-> IF CharAt(s, i) = "," THEN "" ELSE CharAt(s, i)],
          1, Len(s))

\* parseInt(s, 10): <<>> for NaN
parseInt(s) ==
  LET a    == SkipWhile(s, 1, SpaceChars)
      sign == IF LitAt(s, a, "-") THEN -1 ELSE 1
      b    == IF LitAt(s, a, "-") \/ LitAt(s, a, "+") THEN a + 1 ELSE a
      c    == SkipWhile(s, b, Digits)
  IN  IF c = b THEN <<>> ELSE <<sign * ParseDigits(SubSeq(s, b, c - 1))>>

\* parts[k - 1], the empty text when the array is shorter
DatePart(parts, k) == IF k <= Len(parts) THEN parts[k] ELSE ""

\* [day, month, year].some(v => Number.isNaN(v) || v == null) ? null : utcDate(...)
DateFromNumbers(day, month, year) ==
  IF day = <<>> \/ month = -1 \/ year = <<>> THEN <<>>
  ELSE <<utcDate(year[1], month, day[1])>>

\* day, month and year read from the parts, after off leading parts
DateFromParts(parts, off) ==
  DateFromNumbers(parseInt(DatePart(parts, 1 + off)),
                  MonthIndex(toLowerCase(DatePart(parts, 2 + off))),
                  parseInt(DatePart(parts, 3 + off)))

\* a leading weekday is skipped when there are four parts or more
ParseDateParts(parts) ==
  DateFromParts(parts,
                IF Len(parts) >= 4 /\ parseInt(DatePart(parts, 1)) = <<>> THEN 1 ELSE 0)

\* dates.js parseLooseDate: <<>> for null
parseLooseDate(englishDateStr) ==
  IF englishDateStr = "" THEN <<>>
  ELSE ParseDateParts(FilterNonEmpty(
         Split(trim(RemoveCommas(stripOrdinals(englishDateStr))), " ")))

\* prices are kept in hundredths: Number("595.50") is 59550
PriceScale == 100

\* Number(kept) in hundredths, 0 when it is NaN; segs is kept split at "."
NumberOfSegments(kept, segs) ==
  IF Len(segs) > 2 \/ kept = "." THEN 0
  ELSE ParseDigits(segs[1]) * PriceScale
       + ParseDigits(IF Len(segs) = 2 THEN SubSeq(segs[2] \o "00", 1, 2) ELSE "00")

\* String(p).replace(/[^\d.]/g, "")
DigitsAndDots(p) ==
  JoinStr([i \in 1..Len(p) |->
             IF CharAt(p, i) \in Digits \cup {"."} THEN CharAt(p, i) ELSE ""],
          1, Len(p))

\* products.js toNumericPrice, for prices of at most two decimals
toNumericPrice(p) == NumberOfSegments(DigitsAndDots(p), Split(DigitsAndDots(p), "."))

\* variant: a row without a parseable date is let through
DateWithin_UndatedPasses(d, start, end) ==
  \/ d = <<>>
  \/ /\ start # <<>> => ~(d[1] < toUTC00(start[1]))
     /\ end # <<>>   => ~(d[1] > toUTC00(end[1]))

\* the parsed date d lies within the optional bounds
DateWithin(d, start, end) ==
  /\ d # <<>>
  /\ start # <<>> => ~(d[1] < toUTC00(start[1]))
  /\ end # <<>>   => ~(d[1] > toUTC00(end[1]))

\* products.js withinRange(dateStr, [start, end])
withinRange(dateStr, start, end) ==
  IF start = <<>> /\ end = <<>> THEN TRUE
  ELSE DateWithin(parseLooseDate(dateStr), start, end)

(***************************************************************************)
(* Location facets (lib/products.js, pages/api/ask.js).                    *)
(***************************************************************************)
\* products.js norm
products_norm(s) ==
  LET t == StripCombining(normalizeNFD(toLowerCase(s)))
  IN  trim(CollapseSpaces(
        JoinStr([i \in 1..Len(t) |->
                   IF CharAt(t, i) \in {"(", ")", ","} THEN " " ELSE CharAt(t, i)],
                1, Len(t))))

CITY_ALIASES ==
  << [city |-> "online",       aliases |-> <<"online", "virtual", "instructor led", "instructor-led">>],
     [city |-> "chelmsford",   aliases |-> <<"chelmsford">>],
     [city |-> "peterborough", aliases |-> <<"peterborough">>],
     [city |-> "sheffield",    aliases |-> <<"sheffield">>],
     [city |-> "crawley",      aliases |-> <<"crawley">>],
     [city |-> "stratford",    aliases |-> <<"stratford">>] >>

\* CITY_ALIASES[key] || []
AliasesOf(key) ==
  IF \E i \in 1..Len(CITY_ALIASES) : CITY_ALIASES[i].city = key
  THEN CITY_ALIASES[CHOOSE i \in 1..Len(CITY_ALIASES) : CITY_ALIASES[i].city = key].aliases
  ELSE <<>>

\* some alias of the entry is a substring of the text
AliasHit(entry, text) ==
  \E k \in 1..Len(entry.aliases) : Includes(text, products_norm(entry.aliases[k]))

\* the first city other than "online" with an alias in the text, else null
FirstOfflineCityIn(q) ==
  LET hits == {i \in 1..Len(CITY_ALIASES) :
                 CITY_ALIASES[i].city # "online" /\ AliasHit(CITY_ALIASES[i], q)}
  IN  IF hits # {} THEN CITY_ALIASES[MinOf(hits)].city ELSE NULL

\* /\b(anywhere|anyplace|any\s*place|any)\b/.test(q)
AnywhereRe(q) ==
  \/ HasWord(q, "anywhere") \/ HasWord(q, "anyplace") \/ HasWord(q, "any")
  \/ ReBoundary(q, ReLit(q, ReStar(q, ReLit(q, ReBoundary(q, Positions(q)), "any"),
                                   SpaceChars), "place")) # {}

\* variant: the online keyword is looked for before the no-filter words
LocationOfNormalized_OnlineFirst(q) ==
  IF q = "" THEN NULL
  ELSE IF HasWord(q, "online") THEN "online"
  ELSE IF AnywhereRe(q) THEN NULL
  ELSE FirstOfflineCityIn(q)

\* detectUserLocationFromText on the normalized text
LocationOfNormalized(q) ==
  IF q = "" THEN NULL
  ELSE IF AnywhereRe(q) THEN NULL
  ELSE IF HasWord(q, "online") THEN "online"
  ELSE FirstOfflineCityIn(q)

\* products.js detectUserLocationFromText: NULL for no location filter
detectUserLocationFromText(rawText) == LocationOfNormalized(products_norm(rawText))

\* raw.split("|").map(s => s.trim())
PipeParts(rawName) ==
  LET parts == Split(rawName, "|")
  IN  [k \in 1..Len(parts) |-> trim(parts[k])]

\* the first city of CITY_ALIASES with an alias in the text, else null
FirstCityIn(n) ==
  LET hits == {i \in 1..Len(CITY_ALIASES) : AliasHit(CITY_ALIASES[i], n)}
  IN  IF hits # {} THEN CITY_ALIASES[MinOf(hits)].city ELSE NULL

\* norm(middle) && norm(middle) !== "venue tbc"
IsVenue(normedMiddle) == normedMiddle # "" /\ normedMiddle # "venue tbc"

\* the facet of a name with normalized text n and non-empty pipe parts
FacetOf(n, parts) ==
  IF HasWord(n, "online") THEN "online"
  ELSE IF Len(parts) >= 3 /\ IsVenue(products_norm(parts[2])) THEN parts[2]
  ELSE FirstCityIn(n)

\* products.js detectLocationFacet: NULL when the name has no facet
detectLocationFacet(name) ==
  FacetOf(products_norm(name), FilterNonEmpty(PipeParts(name)))

\* the last four tests of products.js matchLocation
FacetMatches(ul, f, aliases) ==
  IF ul = "online" THEN f = "online"
  ELSE \/ Includes(f, ul) \/ Includes(ul, f)
       \/ \E k \in 1..Len(aliases) : Includes(f, products_norm(aliases[k]))
       \/ (Len(aliases) = 0 /\ f = ul)

\* products.js matchLocation once the location is normalized to ul
MatchNormalized(ul, facet) ==
  IF ul = "" \/ ul = "any" \/ ul = "anywhere" THEN TRUE
  ELSE IF facet = NULL \/ facet = "" THEN FALSE
  ELSE FacetMatches(ul, products_norm(facet), AliasesOf(ul))

\* products.js matchLocation(userLocation, productName)
products_matchLocation(userLocation, productName) ==
  IF userLocation = NULL \/ userLocation = "" THEN TRUE
  ELSE MatchNormalized(products_norm(userLocation), detectLocationFacet(productName))

\* ask.js matchLocation once the facet is detected
AskFacetMatches(userLocation, facet) ==
  IF facet = NULL \/ facet = "" THEN FALSE
  ELSE IF userLocation = "online" THEN toLowerCase(facet) = "online"
  ELSE Includes(toLowerCase(facet), toLowerCase(userLocation))

\* ask.js matchLocation(userLocation, productName)
ask_matchLocation(userLocation, productName) ==
  IF userLocation = NULL \/ userLocation = "" THEN TRUE
  ELSE AskFacetMatches(userLocation, detectLocationFacet(productName))

(***************************************************************************)
(* Matching a catalogue name against a family and a refresher flag         *)
(* (lib/abbreviations.js).                                                 *)
(***************************************************************************)
LineTerminators == {"\n", "\r"}

\* .* : any run of characters other than line terminators
ReAny(s, P) ==
  {e \in Positions(s) : \E p \in P : p <= e /\ \A k \in p..(e - 1) :
                                        CharAt(s, k) \notin LineTerminators}

hasTWC(n) ==
  \/ Includes(n, "temporary works coordinator")
  \/ Includes(n, "temporary works co-ordinator")
  \/ Includes(n, "temporary works co ordinator")

hasTWS(n) == Includes(n, "temporary works supervisor")

\* /\bhealth(?:\s*&|\s*and)?\s*safety(?:\s*awareness)?\b/.test(n)
HealthSafetyAwarenessRe(n) ==
  LET p1 == ReLit(n, ReBoundary(n, Positions(n)), "health")
      p2 == p1 \cup ReLit(n, ReStar(n, p1, SpaceChars), "&")
               \cup ReLit(n, ReStar(n, p1, SpaceChars), "and")
      p3 == ReLit(n, ReStar(n, p2, SpaceChars), "safety")
      p4 == p3 \cup ReLit(n, ReStar(n, p3, SpaceChars), "awareness")
  IN  ReBoundary(n, p4) # {}

\* /\benvironmental\b.*\bmanagement\b/.test(n)
EnvironmentalManagementRe(n) ==
  LET p1 == ReBoundary(n, ReLit(n, ReBoundary(n, Positions(n)), "environmental"))
      p2 == ReBoundary(n, ReAny(n, p1))
  IN  ReBoundary(n, ReLit(n, p2, "management")) # {}

\* checks[family]?.() ?? true, on the lowercased name n
FamilyCheck(n, family) ==
  CASE family = "SMSTS" ->
           Includes(n, "site management safety training scheme") /\ ~Includes(n, "refresher")
      [] family = "SMSTS Refresher" ->
           Includes(n, "site management safety training scheme") /\ Includes(n, "refresher")
      [] family = "SSSTS" ->
           Includes(n, "site supervisors safety training scheme") /\ ~Includes(n, "refresher")
      [] family = "SSSTS Refresher" ->
           Includes(n, "site supervisors safety training scheme") /\ Includes(n, "refresher")
      [] family = "HSA" -> HealthSafetyAwarenessRe(n)
      [] family = "TWC" -> hasTWC(n) /\ ~Includes(n, "refresher")
      [] family = "TWC Refresher" -> hasTWC(n) /\ Includes(n, "refresher")
      [] family = "TWS" -> hasTWS(n) /\ ~Includes(n, "refresher")
      [] family = "NEBOSH General" -> Includes(n, "nebosh") /\ ~Includes(n, "construction")
      [] family = "NEBOSH Construction" -> Includes(n, "nebosh") /\ Includes(n, "construction")
      [] family = "NEBOSH" -> Includes(n, "nebosh")
      [] family = "IOSH Managing Safely" ->
           Includes(n, "iosh managing safely") \/ ManagingRe(n)
      [] family = "IOSH Working Safely" ->
           Includes(n, "iosh working safely") \/ WorkingRe(n)
      [] family = "IEMA" ->
           \/ Includes(n, "iema")
           \/ HasWord(n, "foundation certificate in environmental management")
           \/ EnvironmentalManagementRe(n)
      [] family = "MHFA" -> Includes(n, "mental health first aid") \/ Includes(n, "mhfa")
      [] family = "SEATS" ->
           \/ Includes(n, "site environmental awareness training scheme")
           \/ HasWord(n, "site environmental awareness")
           \/ HasWord(n, "seats")
      [] family = "EUSR Water Hygiene AM" ->
           HasWord(n, "water hygiene") /\ (AmRe(n) \/ HasWord(n, "am session"))
      [] family = "EUSR Water Hygiene PM" ->
           HasWord(n, "water hygiene") /\ (PmRe(n) \/ HasWord(n, "pm session"))
      [] OTHER -> TRUE

\* variant: the generic families go through the table like any other
isCourseMatchByFamily_NoPlaceholderStop(name, family) ==
  IF family = NULL \/ family = "" THEN TRUE
  ELSE FamilyCheck(toLowerCase(name), family)

isCourseMatchByFamily(name, family) ==
  IF family = NULL \/ family = "" THEN TRUE
  \* generic families match nothing until the variant is known
  ELSE IF family = "IOSH" \/ family = "EUSR" THEN FALSE
  ELSE FamilyCheck(toLowerCase(name), family)

isRefresherMatch(name, refresher) ==
  IF refresher = NULL THEN TRUE
  ELSE
    LET n == toLowerCase(name)
        hasRefresher == \/ HasWord(n, "refresher") \/ HasWord(n, "renewal")
                        \/ HasWord(n, "update") \/ HasWord(n, "refresh")
    IN  IF refresher = "true" THEN hasRefresher ELSE ~hasRefresher

extractFormatOrVenue(name) ==
  LET parts == PipeParts(name)
  IN  IF Includes(toLowerCase(name), "online") THEN "Online (Instructor-led)"
      ELSE IF Len(parts) >= 3 /\ parts[2] # "" THEN parts[2]
      ELSE "Venue TBC"

(***************************************************************************)
(* Search and diagnostics (lib/products.js, pages/api/ask.js).  A          *)
(* catalogue row is [id, name, start_date, price]; a date range is <<>>    *)
(* for none or <<[start, end]>> with optional bounds.                      *)
(***************************************************************************)
\* the decimal digits of n, left-padded with zeros to width w
RECURSIVE PadZero(_, _)
PadZero(str, w) == IF Len(str) >= w THEN str ELSE PadZero("0" \o str, w)

\* the year of an ISO string: four digits, or a sign and six
ISOYear(year) ==
  IF year >= 0 /\ year <= 9999 THEN PadZero(ToString(year), 4)
  ELSE IF year < 0 THEN "-" \o PadZero(ToString(-year), 6)
  ELSE "+" \o PadZero(ToString(year), 6)

\* the ISO string of the civil date c at hour h
ISOOfCivil(c, h) ==
  ISOYear(c.year) \o "-" \o PadZero(ToString(c.month), 2) \o "-"
  \o PadZero(ToString(c.day), 2) \o "T" \o PadZero(ToString(h), 2) \o ":00:00.000Z"

\* Date.prototype.toISOString of an instant on a whole hour
toISOString(t) == ISOOfCivil(CivilFromDays(t \div HoursPerDay), t % HoursPerDay)

\* d?.toISOString() ?? null
ISOOrNull(d) == IF d = <<>> THEN NULL ELSE toISOString(d[1])

\* parseLooseDate(r.start_date)?.toISOString() ?? null
startTSOf(r) == ISOOrNull(parseLooseDate(r.start_date))

\* products.js mapItem
products_mapItem(r) ==
  [id |-> r.id, title |-> r.name, dates |-> r.start_date, price |-> r.price,
   venueOrFormat |-> extractFormatOrVenue(r.name), startTS |-> startTSOf(r)]

\* facet || "Venue TBC"
FacetOrTBC(facet) == IF facet = NULL \/ facet = "" THEN "Venue TBC" ELSE facet

\* ask.js mapItem
ask_mapItem(r) ==
  [id |-> r.id, title |-> r.name, dates |-> r.start_date, price |-> r.price,
   venueOrFormat |-> FacetOrTBC(detectLocationFacet(r.name)),
   startTS |-> startTSOf(r)]

\* Array.prototype.filter
FilterSeq(seq, Test(_)) ==
  JoinSeq([k \in 1..Len(seq) |-> IF Test(seq[k]) THEN <<seq[k]>> ELSE <<>>],
          1, Len(seq))

\* Array.prototype.sort, which is stable, under the comparator's order
StableSort(seq, Less(_, _)) ==
  LET rank == [i \in 1..Len(seq) |->
                Cardinality({j \in 1..Len(seq) :
                    \/ Less(seq[j], seq[i])
                    \/ (~Less(seq[i], seq[j]) /\ j < i)}) + 1]
  IN  [k \in 1..Len(seq) |-> seq[CHOOSE i \in 1..Len(seq) : rank[i] = k]]

\* the search comparator on parsed dates and numeric prices
DateThenPrice(da, db, pa, pb) ==
  IF da # db
  THEN da # <<>> /\ (db = <<>> \/ da[1] < db[1])
  ELSE pa < pb

\* rows paired with what the comparators read from them: the parsed start
\* date and the numeric price, computed once per row
SortKeyed(rows) ==
  JoinSeq([k \in 1..Len(rows) |->
             <<[row   |-> rows[k],
                date  |-> parseLooseDate(rows[k].start_date),
                price |-> toNumericPrice(rows[k].price)]>>],
          1, Len(rows))

RowsOf(keyed) == [k \in 1..Len(keyed) |-> keyed[k].row]

\* variant: the comparator without the price tie-break
SearchLess_DateOnly(a, b) == DateThenPrice(a.date, b.date, 0, 0)

\* the search comparator: by parsed date, undated last, then by price
SearchLess(a, b) == DateThenPrice(a.date, b.date, a.price, b.price)

\* results.sort(...) of the two searches
SearchSort(rows) == RowsOf(StableSort(SortKeyed(rows), SearchLess))

\* a Date as a number, null as 0
NumberOfDate(d) == IF d = <<>> THEN 0 ELSE d[1]

\* the diagnostics comparator: date minus date, where null counts as 0
DiagLess(a, b) == NumberOfDate(a.date) < NumberOfDate(b.date)

\* variant: the diagnostics lists are left in catalogue order
DiagSort_Unsorted(rows) == rows

\* .sort(...) of the diagnostics lists
DiagSort(rows) == RowsOf(StableSort(SortKeyed(rows), DiagLess))

\* `${r.name}::${r.start_date}`
DedupeKey(r) == r.name \o "::" \o r.start_date

\* variant: no row is dropped
Dedupe_KeepAll(seq) == seq

\* variant: the last row of every key is kept
Dedupe_KeepLast(seq) ==
  JoinSeq([k \in 1..Len(seq) |->
             IF \E j \in (k + 1)..Len(seq) : DedupeKey(seq[j]) = DedupeKey(seq[k])
             THEN <<>> ELSE <<seq[k]>>],
          1, Len(seq))

\* keep the first row of every key
Dedupe(seq) ==
  JoinSeq([k \in 1..Len(seq) |->
             IF \E j \in 1..(k - 1) : DedupeKey(seq[j]) = DedupeKey(seq[k])
             THEN <<>> ELSE <<seq[k]>>],
          1, Len(seq))

\* dateRange && (dateRange.start || dateRange.end) ? withinRange(...) : true
InRequestedRange(p, dateRange) ==
  IF dateRange # <<>> /\ (dateRange[1].start # <<>> \/ dateRange[1].end # <<>>)
  THEN withinRange(p.start_date, dateRange[1].start, dateRange[1].end)
  ELSE TRUE

\* includeRefresher ?? refresher
EffectiveRefresher(includeRefresher, refresher) ==
  IF includeRefresher # NULL THEN includeRefresher ELSE refresher

\* results.map(mapItem) of products.js
products_mapItems(rows) == [k \in 1..Len(rows) |-> products_mapItem(rows[k])]

\* filtered.map(mapItem) of ask.js
ask_mapItems(rows) == [k \in 1..Len(rows) |-> ask_mapItem(rows[k])]

\* searchCoursesInMemory once the term is resolved to family and flag
SearchResolved(catalogue, args, family, eff) ==
  LET Keep(p) == /\ isCourseMatchByFamily(p.name, family)
                 /\ isRefresherMatch(p.name, eff)
                 /\ InRequestedRange(p, args.dateRange)
                 /\ products_matchLocation(args.location, p.name)
  IN  products_mapItems(Dedupe(SearchSort(FilterSeq(catalogue, Keep))))

searchCoursesInMemory(catalogue, args) ==
  SearchResolved(catalogue, args, expandKeywords(args.courseTerm).family,
                 EffectiveRefresher(args.includeRefresher,
                                    expandKeywords(args.courseTerm).refresher))

searchPrecisely(catalogue, args) ==
  LET Keep(p) == /\ isCourseMatchByFamily(p.name, args.normalizedFamily)
                 /\ isRefresherMatch(p.name, args.refresherRequested)
                 /\ InRequestedRange(p, args.dateRange)
                 /\ ask_matchLocation(args.location, p.name)
  IN  ask_mapItems(Dedupe(SearchSort(FilterSeq(catalogue, Keep))))

\* variant: the caller's array is sorted before it is filtered
CatalogueAfterSearch_SortedInPlace(catalogue) == SearchSort(catalogue)

\* the caller's array after a search: filter builds a new array, and it is
\* that array which sort reorders and the second filter replaces
CatalogueAfterSearch(catalogue) == catalogue

\* the caller's array after diagnoseSearch: every list is made by filter
\* from `all`, and sort is applied to those lists only
CatalogueAfterDiagnose(catalogue) == catalogue

NearestLimit == 3

\* .sort(by date).slice(0, 3).map(mapItem)
NearestOf(rows) == products_mapItems(Slice0(DiagSort(rows), NearestLimit))

\* !dateRange || withinRange(p.start_date, [dateRange.start, dateRange.end])
InRangeOrNoRange(p, dateRange) ==
  dateRange = <<>> \/ withinRange(p.start_date, dateRange[1].start, dateRange[1].end)

\* d && d >= today
IsOnOrAfter(d, todayT) == d # <<>> /\ d[1] >= todayT

\* variant: the alternative keeps the requested flag
AltRefOf_SameFlag(eff) == eff

\* effectiveRefresher == null ? null : !effectiveRefresher
AltRefOf(eff) == IF eff = NULL THEN NULL ELSE IF eff = "true" THEN "false" ELSE "true"

\* the rows of the standard <-> refresher alternative
StandardAltRows(catalogue, args, family, altRef) ==
  LET IsAlt(p) == /\ isCourseMatchByFamily(p.name, family)
                  /\ isRefresherMatch(p.name, altRef)
                  /\ InRangeOrNoRange(p, args.dateRange)
                  /\ products_matchLocation(args.location, p.name)
  IN  FilterSeq(catalogue, IsAlt)

\* the rows of matchesFamilyAndRef
FamilyAndRefRows(catalogue, family, eff) ==
  LET MatchesFamilyAndRef(p) == /\ isCourseMatchByFamily(p.name, family)
                                /\ isRefresherMatch(p.name, eff)
  IN  FilterSeq(catalogue, MatchesFamilyAndRef)

\* the rows of future
FutureRows(rows, todayT) ==
  LET IsFuture(p) == IsOnOrAfter(parseLooseDate(p.start_date), todayT)
  IN  FilterSeq(rows, IsFuture)

InDateRows(rows, args) ==
  LET InDate(p) == InRangeOrNoRange(p, args.dateRange)
  IN  FilterSeq(rows, InDate)

InLocRows(rows, args) ==
  LET InLoc(p) == products_matchLocation(args.location, p.name)
  IN  FilterSeq(rows, InLoc)

\* the diagnostics record, from matchesFamilyAndRef and future
DiagnosticsOf(catalogue, args, family, eff, matchesFamilyAndRef, future) ==
  [family |-> family, refresher |-> eff,
   hasAnyFamilyRef |-> Len(matchesFamilyAndRef) > 0,
   hasInDateAnyLoc |-> Len(InDateRows(matchesFamilyAndRef, args)) > 0,
   hasInLocAnyDate |-> Len(InLocRows(matchesFamilyAndRef, args)) > 0,
   nearestInLocation |-> NearestOf(InLocRows(future, args)),
   nearestAnywhere |-> NearestOf(future),
   standardAlt |-> NearestOf(StandardAltRows(catalogue, args, family, AltRefOf(eff)))]

\* diagnoseSearch once the term is resolved to family and flag
DiagnoseResolved(catalogue, args, todayT, family, eff) ==
  DiagnosticsOf(catalogue, args, family, eff,
                FamilyAndRefRows(catalogue, family, eff),
                FutureRows(FamilyAndRefRows(catalogue, family, eff), todayT))

\* diagnoseSearch, with the wall-clock day todayUTC() as todayT
diagnoseSearch(catalogue, args, todayT) ==
  DiagnoseResolved(catalogue, args, todayT, expandKeywords(args.courseTerm).family,
                   EffectiveRefresher(args.includeRefresher,
                                      expandKeywords(args.courseTerm).refresher))

(***************************************************************************)
(* Inputs.                                                                 *)
(***************************************************************************)
\* the characters raw texts given to norm are made of
NormAlphabet == {"a", "Z", "é", "7", "+", "&", " ", "\t", "-"}

RECURSIVE StringsUpTo(_)
StringsUpTo(n) ==
  IF n = 0 THEN {""}
  ELSE LET S == StringsUpTo(n - 1)
       IN  S \cup {s \o c : s \in S, c \in NormAlphabet}

NormInputs == StringsUpTo(MaxLen)

\* every alias phrase as written in the catalogue, and every entry name
AliasPhrases == UNION {{MAP[n].aliases[k] : k \in 1..Len(MAP[n].aliases)} : n \in 1..Len(MAP)}
EntryNames == {MAP[n].family : n \in 1..Len(MAP)}

\* words a user adds to a course phrase
Modifiers == {"refresher", "standard", "refreshers", "construction", "pm"}

\* queries that name no catalogue phrase, or name one loosely
Probes ==
  {"", "xyzzy", "smst", "iosh", "eusr", "water hygiene", "health safety",
   "tws refresher", "sssts standard", "SMSTS Café", "refresher", "standard",
   "nebosh iosh health and safety", "substandard twc", "tws+refresher",
   "ioshh managing", "temporary works", "mhfa-renewal"}

RECURSIVE WithModifiers(_, _)
WithModifiers(S, k) ==
  IF k = 0 THEN S
  ELSE LET T == WithModifiers(S, k - 1)
       IN  T \cup {q \o " " \o m : q \in T, m \in Modifiers}

Queries == Probes \cup WithModifiers(AliasPhrases \cup EntryNames, MaxModifiers)

\* texts given to normalizeDateWindow
DateProbes ==
  {"", "anytime", "any time soon", "this month", "next month", "Next Week please",
   "in 3 weeks", "next 2 weeks", "in 12 weeks", "end of the month", "end of august",
   "end of feb", "august", "smsts in december", "march or may", "tomorrow",
   "from 123 august", "after 1st  march", "from 0 june", "later than 28th february",
   "SMSTS Next Month ", "anytime next month", "this month or next month",
   "next  month", "next months", "next month in august",
   "nextweek", "SMSTS next \tweek in august", "anytime next week",
   "next week or next month", "next weeks"}

RelDays == {"1", "15", "29", "30", "31"}

DateTexts ==
  DateProbes \cup {rel \o " " \o d \o " " \o MONTHS[i] :
                     rel \in Rels, d \in RelDays, i \in 1..12}

\* reference instants: 15 August 2025 and every seventeenth day after it,
\* at midnight and at 13:00 UTC
Nows == {utcDate(2025, 7, 15 + 17 * k) + h : k \in 0..MaxNows, h \in {0, 13}}

\* catalogue rows as the products endpoint serves them
RowPool ==
  { [id |-> 1, name |-> "SMSTS Refresher | Stratford | Weekdays",
     start_date |-> "20th August 2025", price |-> "£295.00"],
    [id |-> 2, name |-> "Site Management Safety Training Scheme Refresher (SMSTS-R) | Stratford | Weekdays",
     start_date |-> "Wed 17 September 2025", price |-> "£295.00"],
    [id |-> 3, name |-> "Site Management Safety Training Scheme (SMSTS) | Online | Weekdays",
     start_date |-> "20th August 2025", price |-> "£595.00"],
    [id |-> 4, name |-> "Site Management Safety Training Scheme (SMSTS) | Online | Weekdays",
     start_date |-> "20th August 2025", price |-> "£550.00"],
    [id |-> 5, name |-> "Site Management Safety Training Scheme (SMSTS) | Stratford | Day release",
     start_date |-> "Mon 3 November 2025", price |-> "£610"],
    [id |-> 6, name |-> "Site Management Safety Training Scheme (SMSTS) | Venue TBC | Weekdays",
     start_date |-> "TBC", price |-> "£250.00"],
    [id |-> 7, name |-> "IOSH Managing Safely | Online | Weekdays",
     start_date |-> "Mon 18 August 2025", price |-> "£395.00"],
    [id |-> 8, name |-> "Site Management Safety Training Scheme (SMSTS) | Stratford | Weekends",
     start_date |-> "Wed 20 August 2025", price |-> "£495.50"] }

\* sequences of rows
RECURSIVE Catalogues(_)
Catalogues(n) ==
  IF n = 0 THEN {<<>>}
  ELSE LET S == Catalogues(n - 1)
       IN  S \cup {Append(c, r) : c \in {x \in S : Len(x) = n - 1}, r \in RowPool}

\* catalogues: distinct rows listed by ascending or by descending id
CatalogueInputs ==
  {c \in Catalogues(MaxRows) :
     \/ \A i \in 1..(Len(c) - 1) : c[i].id < c[i + 1].id
     \/ \A i \in 1..(Len(c) - 1) : c[i].id > c[i + 1].id}

August2025 == [start |-> <<monthStartUTC(2025, 7)>>, end |-> <<monthEndUTC(2025, 7)>>]

\* windows with a bound on the start day of the August sessions
FromAugust20  == [start |-> <<utcDate(2025, 7, 20)>>, end |-> <<monthEndUTC(2025, 7)>>]
UntilAugust20 == [start |-> <<monthStartUTC(2025, 7)>>, end |-> <<utcDate(2025, 7, 20)>>]

\* requests: a refresher and a standard course at every location and window,
\* the standard course with the flag given explicitly, the generic families,
\* the refresher course with the flag given explicitly
ParamInputs ==
  [courseTerm : {"SMSTS Refresher"},
   location : {NULL, "stratford"},
   dateRange : {<<>>, <<August2025>>},
   includeRefresher : {NULL}]
  \cup [courseTerm : {"SMSTS"},
        location : {NULL, "stratford", "online"},
        dateRange : {<<>>, <<August2025>>},
        includeRefresher : {NULL}]
  \cup [courseTerm : {"SMSTS"},
        location : {NULL},
        dateRange : {<<>>, <<FromAugust20>>, <<UntilAugust20>>},
        includeRefresher : {"false"}]
  \cup [courseTerm : {"iosh", "eusr"}, location : {NULL}, dateRange : {<<>>},
        includeRefresher : {NULL}]
  \cup [courseTerm : {"SMSTS Refresher"}, location : {NULL}, dateRange : {<<>>},
        includeRefresher : {"true"}]

\* wall-clock days on which diagnostics run
Todays == {utcDate(2025, 7, 1), utcDate(2025, 9, 1)}

NoCall == [rawQuery |-> "", courseTerm |-> "", dateText |-> "",
           includeRefresher |-> NULL]

NoParams == [courseTerm |-> "", location |-> NULL, dateRange |-> <<>>,
             includeRefresher |-> NULL]

normIdle   == raw = "" /\ normed = <<>>
queryIdle  == term = "" /\ resolved = <<>> /\ qc = <<>>
dateIdle   == dateText = "" /\ now = 0 /\ win = <<>>
searchIdle == /\ products = <<>> /\ params = NoParams /\ today = 0
              /\ found = <<>> /\ precise = <<>> /\ diag = <<>>
routeIdle  == callArgs = NoCall /\ routed = <<>>
NoRequest  == [method |-> "", message |-> ""]
NoResults  == [normalize_dates |-> <<>>, search_courses |-> <<>>]
apiIdle    == /\ req = NoRequest /\ pc = "idle" /\ loopGuard = 0 /\ llmCalls = 0
              /\ toolCalls = <<>> /\ toolResults = NoResults /\ res = <<>>
locIdle    == /\ userText = "" /\ detected = <<>> /\ requested = NULL
              /\ sessionName = "" /\ libMatch = <<>> /\ askMatch = <<>>

(***************************************************************************)
(* The text normalizer: norm is applied to a raw text, then to its own     *)
(* result.                                                                 *)
(***************************************************************************)
InitNorm ==
  /\ raw \in NormInputs
  /\ normed = <<>>
  /\ queryIdle /\ dateIdle /\ searchIdle /\ routeIdle /\ locIdle /\ apiIdle

Normalize ==
  /\ normed = <<>>
  /\ normed' = <<norm(raw)>>
  /\ UNCHANGED <<raw, queryVars, dateVars, searchVars, routeVars, locVars, apiVars>>

NormalizeAgain ==
  /\ Len(normed) = 1
  /\ normed' = Append(normed, norm(normed[1]))
  /\ UNCHANGED <<raw, queryVars, dateVars, searchVars, routeVars, locVars, apiVars>>

NextNorm == Normalize \/ NormalizeAgain

SpecNorm == InitNorm /\ [][NextNorm]_vars

(***************************************************************************)
(* The resolver and the validator, each called once on the query text.     *)
(***************************************************************************)
InitQuery ==
  /\ term \in Queries
  /\ resolved = <<>>
  /\ qc = <<>>
  /\ normIdle /\ dateIdle /\ searchIdle /\ routeIdle /\ locIdle /\ apiIdle

Resolve ==
  /\ resolved = <<>>
  /\ resolved' = <<expandKeywords(term)>>
  /\ UNCHANGED <<term, qc, normVars, dateVars, searchVars, routeVars, locVars, apiVars>>

Validate ==
  /\ qc = <<>>
  /\ qc' = <<validateCourseQuery(term)>>
  /\ UNCHANGED <<term, resolved, normVars, dateVars, searchVars, routeVars, locVars, apiVars>>

NextQuery == Resolve \/ Validate

SpecQuery == InitQuery /\ [][NextQuery]_vars

(***************************************************************************)
(* The date-window normalizer, called once on a text at a reference        *)
(* instant.                                                                *)
(***************************************************************************)
InitDate ==
  /\ dateText \in DateTexts
  /\ now \in Nows
  /\ win = <<>>
  /\ normIdle /\ queryIdle /\ searchIdle /\ routeIdle /\ locIdle /\ apiIdle

NormalizeWindow ==
  /\ win = <<>>
  /\ win' = <<normalizeDateWindow(dateText, now)>>
  /\ UNCHANGED <<dateText, now, normVars, queryVars, searchVars, routeVars, locVars, apiVars>>

NextDate == NormalizeWindow

SpecDate == InitDate /\ [][NextDate]_vars

(***************************************************************************)
(* Search and diagnostics over a fetched catalogue: the in-memory search,  *)
(* then the precise search, then the diagnostics.  The route calls the     *)
(* precise search only for a query the validator accepts, with the         *)
(* family and flag the validator returned.                                 *)
(***************************************************************************)
InitSearch ==
  /\ products \in CatalogueInputs
  /\ params \in ParamInputs
  /\ today = MinOf(Todays)
  /\ term = "" /\ resolved = <<>> /\ qc = <<>>
  /\ found = <<>>
  /\ precise = <<>>
  /\ diag = <<>>
  /\ normIdle /\ dateIdle /\ routeIdle /\ locIdle /\ apiIdle

\* the arguments the route gives searchPrecisely for the validation v
PreciseArgsOf(v, args) ==
  [normalizedFamily   |-> IF v.normalizedFamily # NULL THEN v.normalizedFamily
                          ELSE v.recognizedFamily,
   refresherRequested |-> v.refresherRequested,
   location           |-> args.location,
   dateRange          |-> args.dateRange]

PreciseArgs == PreciseArgsOf(qc[1], params)

\* the request's course term is validated before anything is searched
ValidateRequest ==
  /\ qc = <<>>
  /\ qc' = <<validateCourseQuery(params.courseTerm)>>
  /\ UNCHANGED <<term, resolved, normVars, dateVars, searchVars, routeVars, locVars, apiVars>>

SearchInMemory ==
  /\ qc # <<>>
  /\ found = <<>>
  /\ found' = <<searchCoursesInMemory(products, params)>>
  /\ products' = CatalogueAfterSearch(products)
  /\ UNCHANGED <<params, today, precise, diag, normVars, queryVars, dateVars, routeVars, locVars, apiVars>>

SearchPrecisely ==
  /\ found # <<>>
  /\ precise = <<>>
  /\ qc[1].exists
  /\ precise' = <<searchPrecisely(products, PreciseArgs)>>
  /\ products' = CatalogueAfterSearch(products)
  /\ UNCHANGED <<params, today, found, diag, normVars, queryVars, dateVars, routeVars, locVars, apiVars>>

\* diagnoseSearch reads the wall clock (todayUTC), which never runs backwards
Diagnose ==
  /\ found # <<>>
  /\ precise # <<>> \/ ~qc[1].exists
  /\ diag = <<>>
  /\ \E t \in Todays :
       /\ t >= today
       /\ today' = t
       /\ diag' = <<diagnoseSearch(products, params, t)>>
  /\ products' = CatalogueAfterDiagnose(products)
  /\ UNCHANGED <<params, found, precise, normVars, queryVars, dateVars, routeVars, locVars, apiVars>>

NextSearch == ValidateRequest \/ SearchInMemory \/ SearchPrecisely \/ Diagnose

SpecSearch == InitSearch /\ [][NextSearch]_vars

(***************************************************************************)
(* The tool route of pages/api/ask.js: one search_courses call.            *)
(***************************************************************************)
StopWords == {"and", "also", "pls", "please", "hi", "hello"}
QueryPunctuation == {"?", "!", ".", ";", ",", "/", "\\"}

\* the word (maximal run of word characters) that holds position i
WordAround(s, i) ==
  LET starts == {a \in 1..i : \A k \in a..i : CharAt(s, k) \in WordChars}
  IN  SubSeq(s, MinOf(starts), SkipWhile(s, i, WordChars) - 1)

\* .replace(/\b(and|also|pls|please|hi|hello)\b/gi, " ")
RemoveStopWords(s) ==
  JoinStr([i \in 1..Len(s) |->
             IF CharAt(s, i) \in WordChars /\ toLowerCase(WordAround(s, i)) \in StopWords
             THEN IF i > 1 /\ CharAt(s, i - 1) \in WordChars THEN "" ELSE " "
             ELSE CharAt(s, i)],
          1, Len(s))

\* .replace(/[?!.;,/\\]+/g, " ")
ReplacePunctuation(s) ==
  JoinStr([i \in 1..Len(s) |->
             IF CharAt(s, i) \notin QueryPunctuation THEN CharAt(s, i)
             ELSE IF i > 1 /\ CharAt(s, i - 1) \in QueryPunctuation THEN ""
             ELSE " "],
          1, Len(s))

\* ask.js cleanQuery
cleanQuery(s) == trim(CollapseSpaces(ReplacePunctuation(RemoveStopWords(s))))

\* variant: the route stops only when no family was recognised
RouteStops_OnlyMissingFamily(v) == v.reason = "missing_family"

\* qc.exists === false
RouteStops(v) == ~v.exists

MaxItemsReturned == 8

\* the early return: nothing but the validation is computed
StoppedOutcome(v) ==
  [window |-> <<>>, items |-> <<>>, diagnostics |-> <<>>,
   reply |-> [count |-> 0, dateLabel |-> NULL, items |-> <<>>, qc |-> v]]

\* the return after a search: w the window, its the items, d the diagnostics
SearchedOutcome(v, w, its, d) ==
  [window |-> <<w>>, items |-> <<its>>, diagnostics |-> d,
   reply |-> [count |-> Len(its), dateLabel |-> w.label,
              items |-> Slice0(its, MaxItemsReturned), qc |-> v, diagnostics |-> d]]

\* typeof args.includeRefresher === "boolean" ? args.includeRefresher
\*                                             : qc.refresherRequested
RouteIncludeRefresher(a, v) ==
  IF a.includeRefresher \in {"true", "false"} THEN a.includeRefresher
  ELSE v.refresherRequested

\* diagnostics only when the search found nothing
RouteDiagnostics(catalogue, a, merged, v, range, loc, its, clock) ==
  IF Len(its) = 0
  THEN <<diagnoseSearch(catalogue,
                        [courseTerm |-> IF v.normalizedFamily # NULL /\ v.normalizedFamily # ""
                                        THEN v.normalizedFamily ELSE merged,
                         location |-> loc, dateRange |-> range,
                         includeRefresher |-> RouteIncludeRefresher(a, v)],
                        toUTC00(clock))>>
  ELSE <<>>

RouteWithItems(catalogue, a, merged, v, w, range, loc, its, clock) ==
  SearchedOutcome(v, w, its,
                  RouteDiagnostics(catalogue, a, merged, v, range, loc, its, clock))

RouteWithLocation(catalogue, a, merged, v, w, range, loc, clock) ==
  RouteWithItems(catalogue, a, merged, v, w, range, loc,
                 searchPrecisely(catalogue,
                                 PreciseArgsOf(v, [location |-> loc, dateRange |-> range])),
                 clock)

\* the date window of the route as the dateRange of a search
RangeOfWindow(w) == <<[start |-> <<w.start>>, end |-> <<w.end>>]>>

RouteWithWindow(catalogue, a, rq, merged, v, w, clock) ==
  RouteWithLocation(catalogue, a, merged, v, w, RangeOfWindow(w),
                    detectUserLocationFromText(rq), clock)

\* after validation: stop early, or normalizeDateWindow(args.dateText || rq || "")
RouteValidated(catalogue, a, rq, merged, v, clock) ==
  IF RouteStops(v) THEN StoppedOutcome(v)
  ELSE RouteWithWindow(catalogue, a, rq, merged, v,
                       normalizeDateWindow(IF a.dateText # "" THEN a.dateText ELSE rq,
                                           clock),
                       clock)

RouteMerged(catalogue, a, rq, merged, clock) ==
  RouteValidated(catalogue, a, rq, merged, validateCourseQuery(merged), clock)

\* mergedForQC = `${rq} ${args.courseTerm || ""}`.trim()
RouteCleaned(catalogue, a, rq, clock) ==
  RouteMerged(catalogue, a, rq, trim(rq \o " " \o a.courseTerm), clock)

\* toolRouter for a search_courses call with arguments a, the products
\* endpoint serving catalogue and the wall clock showing clock
search_courses(catalogue, a, clock) ==
  RouteCleaned(catalogue, a, cleanQuery(a.rawQuery), clock)

\* search_courses calls as the conversation makes them
CallInputs ==
  { [rawQuery |-> "Hi, SMSTS in Stratford please!", courseTerm |-> "SMSTS",
     dateText |-> "august", includeRefresher |-> NULL],
    [rawQuery |-> "smsts online", courseTerm |-> "",
     dateText |-> "", includeRefresher |-> "false"],
    [rawQuery |-> "", courseTerm |-> "SMSTS Refresher",
     dateText |-> "next month", includeRefresher |-> "true"],
    [rawQuery |-> "smsts in crawley", courseTerm |-> "",
     dateText |-> "anytime", includeRefresher |-> NULL],
    [rawQuery |-> "tws refresher, pls", courseTerm |-> "",
     dateText |-> "next month", includeRefresher |-> NULL],
    [rawQuery |-> "iosh?", courseTerm |-> "",
     dateText |-> "august", includeRefresher |-> NULL],
    [rawQuery |-> "hello", courseTerm |-> "eusr",
     dateText |-> "", includeRefresher |-> NULL],
    [rawQuery |-> "xyzzy please", courseTerm |-> "",
     dateText |-> "anytime", includeRefresher |-> NULL],
    [rawQuery |-> "hi and hello", courseTerm |-> "",
     dateText |-> "", includeRefresher |-> NULL] }

\* wall-clock instants of the calls
CallClocks == {utcDate(2025, 7, 1) + 9, utcDate(2025, 8, 17)}

InitRoute ==
  /\ products \in {c \in CatalogueInputs : \A i \in 1..(Len(c) - 1) : c[i].id < c[i + 1].id}
  /\ callArgs \in CallInputs
  /\ now \in CallClocks
  /\ today = toUTC00(now)
  /\ routed = <<>>
  /\ dateText = "" /\ win = <<>>
  /\ params = NoParams /\ found = <<>> /\ precise = <<>> /\ diag = <<>>
  /\ normIdle /\ queryIdle /\ locIdle /\ apiIdle

\* the variables take what the call computed on its way to the return value
RouteAssign(o) ==
  /\ routed' = <<o.reply>>
  /\ qc' = <<o.reply.qc>>
  /\ win' = o.window
  /\ precise' = o.items
  /\ diag' = o.diagnostics

SearchCourses ==
  /\ routed = <<>>
  /\ RouteAssign(search_courses(products, callArgs, now))
  /\ UNCHANGED <<products, params, today, found, callArgs, dateText, now, term, resolved,
                 normVars, locVars, apiVars>>

NextRoute == SearchCourses

SpecRoute == InitRoute /\ [][NextRoute]_vars

(***************************************************************************)
(* The reply for a search without results (renderDiagnosticsZeroHTML):     *)
(* which sentence is written, and the session card shown under it.         *)
(***************************************************************************)
\* a?.[0]
FirstOrNone(items) == IF Len(items) > 0 THEN <<items[1]>> ELSE <<>>

\* variant: the location stage is looked at before the date stage
renderDiagnosticsZeroHTML_LocationFirst(dg) ==
  IF dg # <<>> /\ ~dg[1].hasAnyFamilyRef
  THEN [message |-> "none_anywhere", card |-> <<>>]
  ELSE IF dg # <<>> /\ ~dg[1].hasInLocAnyDate
  THEN [message |-> "none_at_location", card |-> FirstOrNone(dg[1].nearestAnywhere)]
  ELSE IF dg # <<>> /\ ~dg[1].hasInDateAnyLoc
  THEN [message |-> "none_in_window",
        card |-> IF dg[1].nearestInLocation # <<>>
                 THEN FirstOrNone(dg[1].nearestInLocation)
                 ELSE FirstOrNone(dg[1].nearestAnywhere)]
  ELSE [message |-> "combined", card |-> <<>>]

\* dg is the diagnostics of the route, <<>> when there are none
renderDiagnosticsZeroHTML(dg) ==
  IF dg # <<>> /\ ~dg[1].hasAnyFamilyRef
  THEN [message |-> "none_anywhere", card |-> <<>>]
  ELSE IF dg # <<>> /\ ~dg[1].hasInDateAnyLoc
  \* best = nearestInLocation?.[0] || nearestAnywhere?.[0]
  THEN [message |-> "none_in_window",
        card |-> IF dg[1].nearestInLocation # <<>>
                 THEN FirstOrNone(dg[1].nearestInLocation)
                 ELSE FirstOrNone(dg[1].nearestAnywhere)]
  ELSE IF dg # <<>> /\ ~dg[1].hasInLocAnyDate
  THEN [message |-> "none_at_location", card |-> FirstOrNone(dg[1].nearestAnywhere)]
  ELSE [message |-> "combined", card |-> <<>>]

(***************************************************************************)
(* diagnoseSearch called on its own, on catalogues with more future        *)
(* sessions of the family than the nearest lists hold.                     *)
(***************************************************************************)
MaxNearestRows == 4

\* sessions of one family as the endpoint lists them, not in date order
NearestPool ==
  << [id |-> 5, name |-> "Site Management Safety Training Scheme (SMSTS) | Stratford | Day release",
      start_date |-> "Mon 3 November 2025", price |-> "£610"],
     [id |-> 3, name |-> "Site Management Safety Training Scheme (SMSTS) | Online | Weekdays",
      start_date |-> "20th August 2025", price |-> "£595.00"],
     [id |-> 9, name |-> "Site Management Safety Training Scheme (SMSTS) | Stratford | Weekdays",
      start_date |-> "Mon 15 September 2025", price |-> "£595.00"],
     [id |-> 8, name |-> "Site Management Safety Training Scheme (SMSTS) | Stratford | Weekends",
      start_date |-> "Wed 20 August 2025", price |-> "£495.50"],
     [id |-> 10, name |-> "Site Management Safety Training Scheme (SMSTS) | Online | Weekdays",
      start_date |-> "Mon 12 January 2026", price |-> "£595.00"],
     [id |-> 11, name |-> "Site Management Safety Training Scheme (SMSTS) | Crawley | Weekdays",
      start_date |-> "Mon 6 October 2025", price |-> "£610.00"],
     [id |-> 2, name |-> "Site Management Safety Training Scheme Refresher (SMSTS-R) | Stratford | Weekdays",
      start_date |-> "Wed 17 September 2025", price |-> "£295.00"],
     [id |-> 12, name |-> "Site Management Safety Training Scheme (SMSTS) Update | Online | Weekdays",
      start_date |-> "Mon 1 September 2025", price |-> "£150.00"] >>

Reversed(seq) == [i \in 1..Len(seq) |-> seq[Len(seq) + 1 - i]]

\* runs of the listing, as listed or in the opposite order
NearestCatalogues ==
  LET runs == {SubSeq(NearestPool, i, j) :
                 i \in 1..Len(NearestPool), j \in 0..Len(NearestPool)}
      short == {c \in runs : Len(c) <= MaxNearestRows}
  IN  short \cup {Reversed(c) : c \in short}

\* requests for the standard course, for its refresher, and for the standard
\* course with the flag given explicitly
NearestParams ==
  [courseTerm : {"SMSTS"}, location : {NULL, "stratford", "online"},
   dateRange : {<<>>}, includeRefresher : {NULL}]
  \cup [courseTerm : {"SMSTS Refresher"}, location : {NULL, "stratford"},
        dateRange : {<<>>, <<August2025>>}, includeRefresher : {NULL}]
  \cup [courseTerm : {"SMSTS"}, location : {NULL},
        dateRange : {<<>>}, includeRefresher : {"false"}]

InitNearest ==
  /\ products \in NearestCatalogues
  /\ params \in NearestParams
  /\ today = MinOf(Todays)
  /\ found = <<>> /\ precise = <<>> /\ diag = <<>>
  /\ normIdle /\ queryIdle /\ dateIdle /\ routeIdle /\ locIdle /\ apiIdle

\* one call of diagnoseSearch, the wall clock showing day t
DiagnoseCall ==
  /\ diag = <<>>
  /\ \E t \in Todays :
       /\ t >= today
       /\ today' = t
       /\ diag' = <<diagnoseSearch(products, params, t)>>
  /\ products' = CatalogueAfterDiagnose(products)
  /\ UNCHANGED <<params, found, precise, normVars, queryVars, dateVars, routeVars, locVars, apiVars>>

NextNearest == DiagnoseCall

SpecNearest == InitNearest /\ [][NextNearest]_vars

(***************************************************************************)
(* Location: the filter read from the user's text, and the two location    *)
(* predicates, the one of lib/products.js (library search, diagnostics)    *)
(* and the one of pages/api/ask.js (precise search).                       *)
(***************************************************************************)
\* user messages
LocationTexts ==
  {"", "SMSTS in Stratford", "smsts online", "anywhere online", "Any place near Crawley",
   "anyplace", "any online course in crawley", "online in stratford",
   "Stratford, ONLINE?", "crawley or sheffield", "virtual smsts", "a company in Chelmsford",
   "many places", "anytime in Peterborough", "Stratfordshire", "smsts"}

\* locations a search can be asked for: none, or a key of CITY_ALIASES
RequestedLocations == {NULL} \cup {CITY_ALIASES[i].city : i \in 1..Len(CITY_ALIASES)}

\* session names as the products endpoint serves them
SessionNames ==
  {"SMSTS | Stratford | Weekdays", "SMSTS | Online | Weekdays",
   "SMSTS | Venue TBC | Weekdays", "SMSTS | Borough | Weekdays",
   "SMSTS | Stratford (London) | Day release", "SMSTS Crawley",
   "Virtual classroom SMSTS", "SMSTS | Instructor-led | Weekdays",
   "SMSTS | Sheffield Online | Weekends", "SMSTS"}

\* a message whose location is to be read, or a requested location and a
\* session to be matched
InitLocation ==
  /\ \/ /\ userText \in LocationTexts \ {""}
        /\ requested = NULL /\ sessionName = ""
     \/ /\ userText = ""
        /\ requested \in RequestedLocations
        /\ sessionName \in SessionNames
  /\ detected = <<>> /\ libMatch = <<>> /\ askMatch = <<>>
  /\ normIdle /\ queryIdle /\ dateIdle /\ searchIdle /\ routeIdle /\ apiIdle

DetectUserLocation ==
  /\ detected = <<>>
  /\ detected' = <<detectUserLocationFromText(userText)>>
  /\ UNCHANGED <<userText, requested, sessionName, libMatch, askMatch,
                 normVars, queryVars, dateVars, searchVars, routeVars, apiVars>>

\* matchLocation as searchCoursesInMemory and diagnoseSearch call it
MatchLocationInLibrary ==
  /\ libMatch = <<>>
  /\ libMatch' = <<products_matchLocation(requested, sessionName)>>
  /\ UNCHANGED <<userText, detected, requested, sessionName, askMatch,
                 normVars, queryVars, dateVars, searchVars, routeVars, apiVars>>

\* matchLocation as searchPrecisely calls it
MatchLocationInRoute ==
  /\ askMatch = <<>>
  /\ askMatch' = <<ask_matchLocation(requested, sessionName)>>
  /\ UNCHANGED <<userText, detected, requested, sessionName, libMatch,
                 normVars, queryVars, dateVars, searchVars, routeVars, apiVars>>

NextLocation == DetectUserLocation \/ MatchLocationInLibrary \/ MatchLocationInRoute

SpecLocation == InitLocation /\ [][NextLocation]_vars

(***************************************************************************)
(* The API handler of pages/api/ask.js.  The reasoning service and the     *)
(* products endpoint are outside the program: what the service answers in  *)
(* a round, and whether the endpoint can be fetched, are choices of the    *)
(* environment.  Each action is the code run between two awaits.           *)
(***************************************************************************)
MaxToolRounds == 4

\* variant: the loop admits one more round
LoopGuardAllows_OneMore(g) == g <= MaxToolRounds

\* loopGuard++ < 4, on the value before the increment
LoopGuardAllows(g) == g < MaxToolRounds

\* res.status(status).json(body)
Respond(status, body) ==
  /\ res' = Append(res, [status |-> status, body |-> body])
  /\ pc' = "done"

\* the catch block: res.status(500).json({ error })
RespondError(message) == Respond(500, [error |-> message])

\* toolRouter for normalize_dates: normalizeDateWindow(text || "") with the
\* wall clock as reference instant
normalize_dates(text, clock) ==
  [start |-> toISOString(normalizeDateWindow(text, clock).start),
   end   |-> toISOString(normalizeDateWindow(text, clock).end),
   label |-> normalizeDateWindow(text, clock).label]

KnownTools == {"normalize_dates", "search_courses"}

\* the error toolRouter throws for the call tc, "" when it returns;
\* endpointUp: PRODUCTS_ENDPOINT is set and fetchProducts succeeds
ToolError(tc, endpointUp) ==
  IF tc.name \notin KnownTools THEN "Unknown tool: " \o tc.name
  ELSE IF tc.name = "search_courses" /\ ~endpointUp THEN "Missing PRODUCTS_ENDPOINT"
  ELSE ""

\* the value toolRouter returns for the call tc
toolRouter(tc, catalogue, clock) ==
  IF tc.name = "normalize_dates" THEN normalize_dates(tc.args.text, clock)
  ELSE search_courses(catalogue, tc.args, clock).reply

\* the reply written for the last search: which renderer writes it, with
\* the labels it is given
ReplyForSearch(lastSearch, locationLabel) ==
  IF ~lastSearch.qc.exists
  THEN [reply |-> IF lastSearch.qc.reason = "variant_not_offered"
                  THEN "variant_not_offered" ELSE "missing_family",
        locationLabel |-> "", dateLabel |-> ""]
  ELSE IF Len(lastSearch.items) > 0
  THEN [reply |-> "results", locationLabel |-> locationLabel,
        dateLabel |-> lastSearch.dateLabel]
  ELSE IF lastSearch.diagnostics # <<>>
  THEN [reply |-> renderDiagnosticsZeroHTML(lastSearch.diagnostics).message,
        locationLabel |-> locationLabel, dateLabel |-> lastSearch.dateLabel]
  ELSE [reply |-> "zero_results", locationLabel |-> locationLabel,
        dateLabel |-> lastSearch.dateLabel]

\* detectUserLocationFromText(cleanQuery(latestUser) || "") || ""
LocationLabelOf(latestUser) ==
  IF detectUserLocationFromText(cleanQuery(latestUser)) = NULL THEN ""
  ELSE detectUserLocationFromText(cleanQuery(latestUser))

\* requests: the method, and body.message ("" when it is missing)
Requests ==
  [method : {"GET", "POST"}, message : {"", "SMSTS in Stratford next month", "iosh?"}]

\* arguments the reasoning service gives search_courses
ServiceCalls ==
  { [rawQuery |-> "SMSTS in Stratford next month", courseTerm |-> "SMSTS",
     dateText |-> "next month", includeRefresher |-> NULL],
    [rawQuery |-> "smsts online", courseTerm |-> "",
     dateText |-> "august", includeRefresher |-> "false"],
    [rawQuery |-> "iosh?", courseTerm |-> "",
     dateText |-> "", includeRefresher |-> NULL],
    [rawQuery |-> "tws refresher, pls", courseTerm |-> "",
     dateText |-> "", includeRefresher |-> NULL] }

\* the tool calls of one assistant message
ToolCallLists ==
  {<<[name |-> "normalize_dates", args |-> [text |-> "next month"]]>>,
   <<[name |-> "normalize_dates", args |-> [text |-> "next month"]],
     [name |-> "normalize_dates", args |-> [text |-> ""]]>>,
   <<[name |-> "course_info", args |-> [text |-> "smsts"]]>>}
  \cup {<<[name |-> "search_courses", args |-> a]>> : a \in ServiceCalls}
  \cup {<<[name |-> "normalize_dates", args |-> [text |-> "august"]],
          [name |-> "search_courses", args |-> a]>> : a \in ServiceCalls}
  \cup {<<[name |-> "search_courses", args |-> a],
          [name |-> "course_info", args |-> [text |-> "smsts"]]>> : a \in ServiceCalls}

\* what a call to the reasoning service comes back with
ServiceAnswers ==
  {[kind |-> k, calls |-> <<>>] : k \in {"throws", "no_message", "content"}}
  \cup {[kind |-> "tool_calls", calls |-> c] : c \in ToolCallLists}

\* the catalogues the products endpoint serves
ServedCatalogues ==
  {c \in CatalogueInputs : Len(c) = 2 /\ c[1].id = 3 /\ c[2].id \in {5, 8}}

InitHandler ==
  /\ req \in Requests
  /\ pc = "start"
  /\ loopGuard = 0 /\ llmCalls = 0
  /\ toolCalls = <<>> /\ toolResults = NoResults /\ res = <<>>
  /\ products \in ServedCatalogues
  /\ now = utcDate(2025, 7, 1) + 9
  /\ today = toUTC00(now)
  /\ params = NoParams /\ found = <<>> /\ precise = <<>> /\ diag = <<>>
  /\ dateText = "" /\ win = <<>>
  /\ normIdle /\ queryIdle /\ routeIdle /\ locIdle

restOfWorld == <<normVars, queryVars, dateVars, searchVars, routeVars, locVars>>

\* the handler up to the try block
Receive ==
  /\ pc = "start"
  /\ IF req.method # "POST" THEN Respond(405, [error |-> "Method not allowed"])
     ELSE IF req.message = "" THEN Respond(400, [error |-> "Missing 'message'"])
     ELSE pc' = "loop" /\ res' = res
  /\ UNCHANGED <<req, loopGuard, llmCalls, toolCalls, toolResults, restOfWorld>>

\* the loop test, then the call to the reasoning service or, once the guard
\* is used up, the reply after the loop
CallReasoning ==
  /\ pc = "loop"
  /\ loopGuard' = loopGuard + 1
  /\ IF LoopGuardAllows(loopGuard)
     THEN /\ llmCalls' = llmCalls + 1
          /\ pc' = "awaiting" /\ res' = res
     ELSE /\ llmCalls' = llmCalls
          /\ Respond(200, [reply |-> "tool_call_limit", locationLabel |-> "",
                           dateLabel |-> ""])
  /\ UNCHANGED <<req, toolCalls, toolResults, restOfWorld>>

\* the reasoning service comes back
ReasoningReplies ==
  /\ pc = "awaiting"
  /\ \E a \in ServiceAnswers :
       IF a.kind = "throws"
       THEN RespondError("service error") /\ toolCalls' = toolCalls
       ELSE IF a.kind = "no_message"
       THEN RespondError("No assistant message returned") /\ toolCalls' = toolCalls
       ELSE IF a.calls = <<>>
       THEN /\ Respond(200, [reply |-> "assistant", locationLabel |-> "",
                             dateLabel |-> ""])
            /\ toolCalls' = toolCalls
       ELSE pc' = "tools" /\ toolCalls' = a.calls /\ res' = res
  /\ UNCHANGED <<req, loopGuard, llmCalls, toolResults, restOfWorld>>

\* after the last tool call of the round: the reply for a search, or the
\* next round
RoundEnds(results) ==
  IF results.search_courses # <<>>
  THEN Respond(200, ReplyForSearch(results.search_courses[1], LocationLabelOf(req.message)))
  ELSE pc' = "loop" /\ res' = res

\* toolRouter comes back for the first call not yet routed
RouteToolCall ==
  /\ pc = "tools"
  /\ \E endpointUp \in BOOLEAN :
       IF ToolError(Head(toolCalls), endpointUp) # ""
       THEN /\ RespondError(ToolError(Head(toolCalls), endpointUp))
            /\ UNCHANGED <<toolCalls, toolResults>>
       ELSE /\ toolResults' = [toolResults EXCEPT ![Head(toolCalls).name] =
                                 <<toolRouter(Head(toolCalls), products, now)>>]
            /\ toolCalls' = Tail(toolCalls)
            /\ IF Len(toolCalls) > 1 THEN pc' = pc /\ res' = res
               ELSE RoundEnds(toolResults')
  /\ UNCHANGED <<req, loopGuard, llmCalls, restOfWorld>>

NextHandler == Receive \/ CallReasoning \/ ReasoningReplies \/ RouteToolCall

SpecHandler == InitHandler /\ [][NextHandler]_vars

HandlerPositions == {"start", "loop", "awaiting", "tools", "done"}

\* what every step of an unfinished request does to its position and to
\* the tool calls still to route: it moves to another position (with the
\* calls of a new assistant message, or with the calls it had), or it stays
\* in the for loop with one call fewer
Advances ==
  /\ pc # "done"
  /\ pc' \in HandlerPositions
  /\ toolCalls' \in {toolCalls} \cup ToolCallLists
                      \cup {Tail(c) : c \in {toolCalls} \ {<<>>}}

\* every awaited call settles (the service and the endpoint answer or
\* fail), and the event loop resumes the handler: an unfinished request
\* takes its next step
SpecHandlerLive == SpecHandler /\ WF_<<pc, toolCalls>>(Advances)

(***************************************************************************)
(* Properties of the resolver and the validator (checked under SpecQuery). *)
(***************************************************************************)
Resolved  == Len(resolved) = 1
Validated == Len(qc) = 1

\* a family is refresher-capable iff the catalogue has an entry "<F> Refresher"
HasRefresherEntry(F) == \E n \in 1..Len(MAP) : MAP[n].family = F \o " Refresher"

Placeholders == {"IOSH", "EUSR"}

\* C1: every alias phrase listed under an entry whose base family is F
\* resolves, given as the query text itself, to the family F.
C1_AliasResolvesToItsFamily ==
  Resolved =>
    \A n \in 1..Len(MAP) : \A k \in 1..Len(MAP[n].aliases) :
      term = MAP[n].aliases[k] => resolved[1].family = BaseFamily(MAP[n].family)

\* the label is a catalogue family within edit distance 3 of the query text
\* (by its full name or its leading token), or the Refresher variant of one
IsCloseSuggestion(label, text) ==
  \E i \in 1..Len(FAMILIES) :
    /\ \/ levenshtein(text, FAMILIES[i]) <= 3
       \/ levenshtein(text, FirstToken(FAMILIES[i])) <= 3
    /\ \/ label = FAMILIES[i]
       \/ label = FAMILIES[i] \o " Refresher" /\ HasRefresherEntry(FAMILIES[i])

MissingFamilyResult(v) ==
  /\ v.reason = "missing_family"
  /\ v.exists = FALSE
  /\ v.normalizedFamily = NULL

\* C3 as stated: a query from which no family resolves, such as "xyzzy",
\* is reported missing_family with exists = false, normalizedFamily = null
\* and a non-empty suggestions list.
C3_MissingFamilyHasSuggestions ==
  (Resolved /\ Validated /\ resolved[1].family = NULL) =>
    /\ MissingFamilyResult(qc[1])
    /\ qc[1].suggestions # <<>>

\* C3 amended: a query from which no family resolves is reported
\* missing_family with exists = false and normalizedFamily = null; every
\* suggestion is a catalogue family within edit distance 3 of the query or
\* its Refresher variant, and the list is empty for "xyzzy".
C3_MissingFamilySuggestsCloseOnly ==
  (Resolved /\ Validated /\ resolved[1].family = NULL) =>
    /\ MissingFamilyResult(qc[1])
    /\ \A i \in 1..Len(qc[1].suggestions) :
         IsCloseSuggestion(qc[1].suggestions[i].label, term)
    /\ term = "xyzzy" => qc[1].suggestions = <<>>

C3_Witness ==
  /\ term = "xyzzy" /\ Resolved /\ Validated
  /\ resolved[1].family = NULL
  /\ qc[1].reason = "missing_family"

\* C6: when the resolved family is a generic placeholder (IOSH or EUSR) the
\* validator answers needs_variant, exists = false, normalizedFamily = null
\* and exactly the two concrete child variants in order; so for "iosh".
C6_GenericNeedsVariant ==
  /\ (Resolved /\ Validated /\ resolved[1].family \in Placeholders) =>
       /\ qc[1].reason = "needs_variant"
       /\ qc[1].exists = FALSE
       /\ qc[1].normalizedFamily = NULL
       /\ resolved[1].family = "IOSH" =>
            qc[1].suggestions = <<[label |-> "IOSH Managing Safely"],
                                  [label |-> "IOSH Working Safely"]>>
       /\ resolved[1].family = "EUSR" =>
            qc[1].suggestions = <<[label |-> "EUSR Water Hygiene AM"],
                                  [label |-> "EUSR Water Hygiene PM"]>>
  /\ (Validated /\ term = "iosh") => qc[1].reason = "needs_variant"

C6_Witness ==
  /\ Resolved /\ Validated
  /\ resolved[1].family = "EUSR"
  /\ qc[1].reason = "needs_variant"

\* the refresher-capable families, as a set
Capable == {F \in {FAMILIES[i] : i \in 1..Len(FAMILIES)} : HasRefresherEntry(F)}

\* C7: a refresher requested for a concrete family that is not
\* refresher-capable is answered variant_not_offered, exists = false,
\* normalizedFamily = null, and the suggestions are the non-refresher form
\* of the family followed by the two refresher-capable families nearest to
\* it by edit distance, each as its Refresher variant.
C7_VariantNotOffered ==
  (/\ Resolved /\ Validated
   /\ resolved[1].refresher = "true"
   /\ resolved[1].family # NULL
   /\ resolved[1].family \notin Placeholders
   /\ ~HasRefresherEntry(resolved[1].family)) =>
    LET fam == resolved[1].family
        sug == qc[1].suggestions
    IN  /\ qc[1].reason = "variant_not_offered"
        /\ qc[1].exists = FALSE
        /\ qc[1].normalizedFamily = NULL
        /\ Len(sug) = 3
        /\ sug[1].label = fam \o " (Standard)"
        /\ \E f2 \in Capable : \E f3 \in Capable \ {f2} :
             /\ sug[2].label = f2 \o " Refresher"
             /\ sug[3].label = f3 \o " Refresher"
             /\ levenshtein(f2, fam) <= levenshtein(f3, fam)
             /\ \A g \in Capable \ {f2, f3} :
                  levenshtein(f3, fam) <= levenshtein(g, fam)

C7_Witness ==
  /\ term = "tws refresher" /\ Resolved /\ Validated
  /\ resolved[1].family = "TWS"
  /\ qc[1].reason = "variant_not_offered"

Reasons == {"ok", "missing_family", "needs_variant", "variant_not_offered"}

\* C8: exists = true iff reason = ok iff a family resolved that is not a
\* placeholder and not a refresher request for a non-capable family; then
\* normalizedFamily is the family with " Refresher" appended exactly when
\* refresher = true and suggestions is empty.  The reason is one of four.
C8_ExistsIffOk ==
  (Resolved /\ Validated) =>
    LET fam == resolved[1].family
        ref == resolved[1].refresher
        satisfiable == /\ fam # NULL
                       /\ fam \notin Placeholders
                       /\ ~(ref = "true" /\ ~HasRefresherEntry(fam))
    IN  /\ qc[1].reason \in Reasons
        /\ qc[1].exists = TRUE <=> qc[1].reason = "ok"
        /\ qc[1].reason = "ok" <=> satisfiable
        /\ satisfiable =>
             /\ qc[1].suggestions = <<>>
             /\ ref = "true"  => qc[1].normalizedFamily = fam \o " Refresher"
             /\ ref # "true"  => qc[1].normalizedFamily = fam

C8_Witness ==
  /\ Resolved /\ Validated
  /\ resolved[1].refresher = "true"
  /\ qc[1].exists = TRUE
  /\ qc[1].normalizedFamily = "SSSTS Refresher"

\* the whole-word tokens of a text: its maximal runs of word characters
WordTokens(s) ==
  {SubSeq(s, i, j) : <<i, j>> \in
     {x \in (1..Len(s)) \X (1..Len(s)) :
        /\ x[1] <= x[2]
        /\ \A k \in x[1]..x[2] : CharAt(s, k) \in WordChars
        /\ x[1] = 1 \/ CharAt(s, x[1] - 1) \notin WordChars
        /\ x[2] = Len(s) \/ CharAt(s, x[2] + 1) \notin WordChars}}

RefresherWords == {"refresher", "renewal", "update", "refresh"}

\* C9: the refresher flag is true iff the normalized text has one of the
\* whole-word tokens refresher, renewal, update, refresh; false iff it has
\* none of them but the token standard; null otherwise, whatever family
\* resolved.  "smsts refresher": true, "sssts standard": false, "hsa": null.
C9_RefresherFlagByTokens ==
  Resolved =>
    LET toks == WordTokens(norm(term))
        flag == resolved[1].refresher
    IN  /\ flag = "true"  <=> toks \cap RefresherWords # {}
        /\ flag = "false" <=> (toks \cap RefresherWords = {} /\ "standard" \in toks)
        /\ flag = NULL    <=> (toks \cap RefresherWords = {} /\ "standard" \notin toks)
        /\ term = "smsts refresher" => flag = "true"
        /\ term = "sssts standard"  => flag = "false"
        /\ term = "hsa"             => flag = NULL

C9_Witness ==
  /\ Resolved
  /\ term = "sssts standard"
  /\ resolved[1].family = "SSSTS"
  /\ resolved[1].refresher = "false"

(***************************************************************************)
(* Properties of the text normalizer (checked under SpecNorm).             *)
(***************************************************************************)
\* only characters of [a-z0-9+& ], no leading, trailing or doubled space
NormalForm(s) ==
  /\ \A i \in 1..Len(s) : CharAt(s, i) \in LowerLetters \cup Digits \cup {"+", "&", " "}
  /\ Len(s) > 0 => CharAt(s, 1) # " " /\ CharAt(s, Len(s)) # " "
  /\ ~Includes(s, "  ")

\* C10: norm is idempotent, and its result has only characters of
\* [a-z0-9+& ] with no leading, trailing or doubled spaces.
C10_NormIdempotent ==
  /\ \A i \in 1..Len(normed) : NormalForm(normed[i])
  /\ Len(normed) = 2 => normed[2] = normed[1]

C10_Witness ==
  /\ Len(normed) = 2
  /\ raw = "Z- é"
  /\ normed[1] = "z e"

(***************************************************************************)
(* Properties of the date-window normalizer (checked under SpecDate).      *)
(***************************************************************************)
\* C4: for every text and every reference instant, the window returned by
\* normalizeDateWindow has start <= end.
C4_StartNotAfterEnd ==
  win # <<>> => win[1].start <= win[1].end

\* the text reaches the "next month" rule: it is not empty and, lowercased
\* and trimmed, holds the words "next month" and matches neither of the two
\* rules tried before it (anytime / whenever, "this month")
NextMonthCase ==
  /\ win # <<>>
  /\ dateText # ""
  /\ HasWord(trim(toLowerCase(dateText)), "next month")
  /\ ~AnytimeRe(trim(toLowerCase(dateText)))
  /\ ~HasWord(trim(toLowerCase(dateText)), "this month")

\* months counted from year 0, of an instant
MonthNumber(t) == 12 * getUTCFullYear(t) + getUTCMonth(t)

\* C11: for a text matching "next month" and any reference instant, the
\* window runs from the first to the last day of the calendar month that
\* follows the month of the reference instant (January of the next year after
\* December), both at UTC midnight, with label "next month"; at 15 August
\* 2025 it is 1 September 2025 .. 30 September 2025.
C11_NextMonthWindow ==
  NextMonthCase =>
    /\ win[1].label = "next month"
    /\ win[1].start % HoursPerDay = 0
    /\ win[1].end % HoursPerDay = 0
    /\ getUTCDate(win[1].start) = 1
    /\ MonthNumber(win[1].start) = MonthNumber(now) + 1
    /\ MonthNumber(win[1].end) = MonthNumber(win[1].start)
    /\ getUTCDate(win[1].end + HoursPerDay) = 1
    /\ (toUTC00(now) = utcDate(2025, 7, 15) =>
          /\ win[1].start = utcDate(2025, 8, 1)
          /\ win[1].end = utcDate(2025, 8, 30))

\* a December reference instant, 13:00 UTC, rolls to January 2026
C11_Witness ==
  /\ NextMonthCase
  /\ dateText = "SMSTS Next Month "
  /\ now = utcDate(2025, 11, 29) + 13
  /\ win[1].start = utcDate(2026, 0, 1)
  /\ win[1].end = utcDate(2026, 0, 31)

\* C12: for empty text and any reference instant, the window starts at the
\* reference instant truncated to UTC midnight, ends exactly 56 days after
\* its start, and is labelled "next 8 weeks".
C12_EmptyTextDefaultWindow ==
  (win # <<>> /\ dateText = "") =>
    /\ win[1].start = now - (now % HoursPerDay)
    /\ win[1].end = win[1].start + DefaultWindowDays * HoursPerDay
    /\ win[1].label = "next 8 weeks"

\* empty text at 13:00 UTC on 29 December 2025: the window crosses the year
C12_Witness ==
  /\ win # <<>>
  /\ dateText = ""
  /\ now = utcDate(2025, 11, 29) + 13
  /\ win[1].start = utcDate(2025, 11, 29)
  /\ win[1].end = utcDate(2026, 1, 23)

(***************************************************************************)
(* Properties of search and diagnostics (checked under SpecSearch).        *)
(***************************************************************************)
\* the ids of the items of a result, in order
IdsOf(items) == [k \in 1..Len(items) |-> items[k].id]

\* the session of the round trip is in the catalogue, and the search asks
\* for SMSTS Refresher in Stratford in August 2025
RoundTripCase ==
  /\ \E i \in 1..Len(products) :
       /\ StartsWith(products[i].name, "SMSTS Refresher | Stratford | ")
       /\ products[i].start_date = "20th August 2025"
       /\ products[i].id = 1
  /\ params.courseTerm = "SMSTS Refresher"
  /\ params.location = "stratford"
  /\ params.dateRange = <<August2025>>
  /\ params.includeRefresher = NULL

\* C2: when the catalogue holds the session "SMSTS Refresher | Stratford |
\* ..." starting "20th August 2025", a search for family "SMSTS Refresher"
\* at "stratford" over August 2025 returns exactly that session, from the
\* in-memory search and from the precise search alike.
C2_RoundTripFindsSession ==
  RoundTripCase =>
    /\ found # <<>> => IdsOf(found[1]) = <<1>>
    /\ precise # <<>> => IdsOf(precise[1]) = <<1>>

\* the family and flag a request stands for, as the validator reads them
RequestedFamily == PreciseArgs.normalizedFamily
RequestedFlag ==
  EffectiveRefresher(params.includeRefresher, PreciseArgs.refresherRequested)

MatchesRequest(p) ==
  /\ isCourseMatchByFamily(p.name, RequestedFamily)
  /\ isRefresherMatch(p.name, RequestedFlag)

\* a dated row whose start lies in another month than the requested window
InOtherMonth(p) ==
  LET d == parseLooseDate(p.start_date)
      w == params.dateRange[1].start[1]
  IN  /\ d # <<>>
      /\ <<getUTCFullYear(d[1]), getUTCMonth(d[1])>> # <<getUTCFullYear(w), getUTCMonth(w)>>

\* no row matches family, flag, window and location, yet one matches family
\* and flag in another month
StagingCase ==
  /\ qc # <<>> /\ qc[1].exists
  /\ params.dateRange # <<>>
  /\ \A i \in 1..Len(products) :
       ~(/\ MatchesRequest(products[i])
         /\ InRequestedRange(products[i], params.dateRange)
         /\ products_matchLocation(params.location, products[i].name))
  /\ \E i \in 1..Len(products) : MatchesRequest(products[i]) /\ InOtherMonth(products[i])

\* C5: with no session matching family, flag, window and location but one
\* matching family and flag in a different month, the diagnostics report
\* hasAnyFamilyRef true, hasInDateAnyLoc false and a non-empty
\* nearestAnywhere.
C5_StagingReportsDateWindow ==
  (diag # <<>> /\ StagingCase) =>
    /\ diag[1].hasAnyFamilyRef
    /\ ~diag[1].hasInDateAnyLoc
    /\ diag[1].nearestAnywhere # <<>>

\* the catalogue row an item was mapped from
SourceRow(item) ==
  products[CHOOSE i \in 1..Len(products) : products[i].id = item.id]

SamePair(a, b) == a.name = b.name /\ a.start_date = b.start_date

NoTwoFromSamePair(items) ==
  \A i, j \in 1..Len(items) :
    i # j => ~SamePair(SourceRow(items[i]), SourceRow(items[j]))

\* C13: no two items of a search result come from rows with the same
\* (name, start-date text) pair, in the library search and in the route's
\* search alike.
C13_NoDuplicatePairs ==
  /\ found # <<>> => NoTwoFromSamePair(found[1])
  /\ precise # <<>> => NoTwoFromSamePair(precise[1])

\* two rows of one pair, both passing the filters, collapse to one item
C13_Witness ==
  /\ Len(products) = 2
  /\ products[1].id # products[2].id
  /\ SamePair(products[1], products[2])
  /\ params.courseTerm = "SMSTS"
  /\ params.location = "online"
  /\ params.dateRange = <<August2025>>
  /\ found # <<>> /\ Len(found[1]) = 1
  /\ precise # <<>> /\ Len(precise[1]) = 1

\* C14: the family-match predicate is false for the generic families
\* "IOSH" and "EUSR" on every session name, and a search whose term resolves
\* to one of them returns nothing, whatever the catalogue holds.
C14_PlaceholderMatchesNothing ==
  /\ \A i \in 1..Len(products) : \A F \in Placeholders :
       ~isCourseMatchByFamily(products[i].name, F)
  /\ (found # <<>> /\ expandKeywords(params.courseTerm).family \in Placeholders)
       => found[1] = <<>>

\* "iosh" searched in a catalogue that holds an IOSH Managing Safely session
C14_Witness ==
  /\ \E i \in 1..Len(products) : StartsWith(products[i].name, "IOSH Managing Safely")
  /\ params.courseTerm = "iosh"
  /\ expandKeywords(params.courseTerm).family = "IOSH"
  /\ found = << <<>> >>

PairsOfItems(items) ==
  {<<SourceRow(items[k]).name, SourceRow(items[k]).start_date>> : k \in 1..Len(items)}

\* (c): when the window has a bound, the start date parses and lies within
\* the window, both bounds included
StartsInWindow(p) ==
  (params.dateRange # <<>>
     /\ (params.dateRange[1].start # <<>> \/ params.dateRange[1].end # <<>>))
  => /\ parseLooseDate(p.start_date) # <<>>
     /\ params.dateRange[1].start # <<>> =>
          params.dateRange[1].start[1] <= parseLooseDate(p.start_date)[1]
     /\ params.dateRange[1].end # <<>> =>
          parseLooseDate(p.start_date)[1] <= params.dateRange[1].end[1]

\* the four filters of the library search on a catalogue row
PassesFilters(p) ==
  /\ isCourseMatchByFamily(p.name, expandKeywords(params.courseTerm).family)
  /\ isRefresherMatch(p.name,
                      EffectiveRefresher(params.includeRefresher,
                                         expandKeywords(params.courseTerm).refresher))
  /\ StartsInWindow(p)
  /\ products_matchLocation(params.location, p.name)

\* C18: a (name, start-date text) pair is in the search result if and only
\* if some catalogue row with that pair passes the family, refresher, window
\* and location filters; rows without a parseable date fail the window
\* filter and are skipped.
C18_SearchSoundAndComplete ==
  found # <<>> =>
    PairsOfItems(found[1]) =
      {<<products[i].name, products[i].start_date>> :
         i \in {j \in 1..Len(products) : PassesFilters(products[j])}}

\* an undated row is skipped and a row starting on the first day of the
\* window is kept
C18_Witness ==
  /\ IdsOf(products) = <<3, 6>>
  /\ params.courseTerm = "SMSTS"
  /\ params.dateRange = <<FromAugust20>>
  /\ found # <<>> /\ IdsOf(found[1]) = <<3>>

\* the items follow the search order: by parsed start date with the undated
\* ones last, and by numeric price where the dates are equal or both missing
InSearchOrder(items) ==
  \A k \in 1..(Len(items) - 1) :
    LET a  == SourceRow(items[k])
        b  == SourceRow(items[k + 1])
        da == parseLooseDate(a.start_date)
        db == parseLooseDate(b.start_date)
    IN  /\ (da # <<>> /\ db # <<>>) => da[1] <= db[1]
        /\ da = <<>> => db = <<>>
        /\ da = db => toNumericPrice(a.price) <= toNumericPrice(b.price)

\* C19: in a search result the parsed start dates never decrease, every
\* undated item comes after every dated one, and among items with the same
\* start date (or none) the numeric price never decreases.
C19_ResultOrdered ==
  /\ found # <<>> => InSearchOrder(found[1])
  /\ precise # <<>> => InSearchOrder(precise[1])

\* two sessions of 20 August, written "20th August 2025" and "Wed 20 August
\* 2025", listed dearer first: the result puts the cheaper one first
C19_Witness ==
  /\ IdsOf(products) = <<3, 8>>
  /\ params.courseTerm = "SMSTS"
  /\ params.location = NULL
  /\ params.dateRange = <<>>
  /\ found # <<>> /\ IdsOf(found[1]) = <<8, 3>>
  /\ precise # <<>> /\ IdsOf(precise[1]) = <<8, 3>>

\* the place of the row behind an item in the catalogue
PlaceOf(item) == CHOOSE i \in 1..Len(products) : products[i].id = item.id

\* every item comes from the first catalogue row of its pair
KeepsFirstInCatalogue(items) ==
  \A k \in 1..Len(items) : \A i \in 1..Len(products) :
    SamePair(products[i], SourceRow(items[k])) => PlaceOf(items[k]) <= i

\* C20 as stated: of the rows that share a (name, start-date text) pair, the
\* one kept in the result is the one that comes first in the catalogue.
C20_KeepsFirstInCatalogue ==
  /\ found # <<>> => KeepsFirstInCatalogue(found[1])
  /\ precise # <<>> => KeepsFirstInCatalogue(precise[1])

\* every item comes from the first row of its pair in the sorted order: the
\* one with the lowest numeric price, and the first in the catalogue among
\* those of that price
KeepsFirstInSortOrder(items) ==
  \A k \in 1..Len(items) : \A i \in 1..Len(products) :
    SamePair(products[i], SourceRow(items[k])) =>
      \/ toNumericPrice(SourceRow(items[k]).price) < toNumericPrice(products[i].price)
      \/ /\ toNumericPrice(SourceRow(items[k]).price) = toNumericPrice(products[i].price)
         /\ PlaceOf(items[k]) <= i

\* C20 (amended): of the rows that share a pair, the one kept is the first in
\* the sorted order, that is the cheapest, and among equally priced ones the
\* first in the catalogue.
C20_KeepsFirstInSortOrder ==
  /\ found # <<>> => KeepsFirstInSortOrder(found[1])
  /\ precise # <<>> => KeepsFirstInSortOrder(precise[1])

\* the dearer row of a pair is listed first, the cheaper one is kept
C20_Witness ==
  /\ IdsOf(products) = <<3, 4>>
  /\ params.courseTerm = "SMSTS"
  /\ found # <<>> /\ IdsOf(found[1]) = <<4>>
  /\ precise # <<>> /\ IdsOf(precise[1]) = <<4>>

\* C16: an operation is a function of its explicit inputs only: whatever
\* the wall-clock day on which they are computed, the diagnostics for a
\* catalogue and parameters are those computed for them on the first day.
C16_SameInputsSameDiagnostics ==
  diag # <<>> => diag[1] = diagnoseSearch(products, params, MinOf(Todays))

(***************************************************************************)
(* Properties of the tool route (checked under SpecRoute).                 *)
(***************************************************************************)
\* C15: when the validator reports exists = false, the route returns count
\* 0, no items and the validation, and neither a date window, nor a search,
\* nor diagnostics are computed.
C15_NoSearchWhenInvalid ==
  (routed # <<>> /\ ~validateCourseQuery(
                       trim(cleanQuery(callArgs.rawQuery) \o " " \o callArgs.courseTerm)).exists)
    => /\ routed[1] = [count |-> 0, dateLabel |-> NULL, items |-> <<>>, qc |-> qc[1]]
       /\ ~qc[1].exists
       /\ win = <<>>
       /\ precise = <<>>
       /\ diag = <<>>

\* "iosh?" needs a variant: the route stops although the catalogue holds an
\* IOSH session in the requested month
C15_Witness ==
  /\ routed # <<>>
  /\ callArgs.rawQuery = "iosh?"
  /\ qc[1].reason = "needs_variant"
  /\ \E i \in 1..Len(products) : products[i].id = 7
  /\ routed[1].count = 0
  /\ win = <<>> /\ precise = <<>> /\ diag = <<>>

(***************************************************************************)
(* Diagnostics of the route against the precise search that preceded them. *)
(***************************************************************************)
\* the row passes the family and refresher predicates of the precise search
PassedPreciseFamilyAndRef(p) ==
  /\ isCourseMatchByFamily(p.name, PreciseArgsOf(qc[1], NoParams).normalizedFamily)
  /\ isRefresherMatch(p.name, PreciseArgsOf(qc[1], NoParams).refresherRequested)

\* C21: whenever the route produces diagnostics that report
\* hasAnyFamilyRef = false, no catalogue session satisfies the family and
\* refresher predicates the precise search applied
C21_DiagnosticsAgreeWithSearch ==
  (routed # <<>> /\ diag # <<>> /\ ~diag[1].hasAnyFamilyRef)
    => \A i \in 1..Len(products) : ~PassedPreciseFamilyAndRef(products[i])

(***************************************************************************)
(* The library search against the precise search of the orchestration.     *)
(***************************************************************************)
\* the request gives the library search the validator's normalizedFamily as
\* its course term and the validator's refresher flag
CalledWithValidatedTerm ==
  /\ qc # <<>> /\ qc[1].reason = "ok"
  /\ params.courseTerm = qc[1].normalizedFamily
  /\ params.includeRefresher = qc[1].refresherRequested

\* C22: for a validated query, searchCoursesInMemory called with the
\* validator's normalizedFamily and refresher flag selects the same sessions
\* in the same order as searchPrecisely called with the same family, flag,
\* location and window
C22_SearchesAgree ==
  (CalledWithValidatedTerm /\ found # <<>> /\ precise # <<>>)
    => IdsOf(found[1]) = IdsOf(precise[1])

(***************************************************************************)
(* The stages of the diagnostics (checked under SpecSearch).               *)
(***************************************************************************)
\* the family and refresher predicates as diagnoseSearch reads the request
MatchesFamilyAndRef(p) ==
  /\ isCourseMatchByFamily(p.name, expandKeywords(params.courseTerm).family)
  /\ isRefresherMatch(p.name,
                      EffectiveRefresher(params.includeRefresher,
                                         expandKeywords(params.courseTerm).refresher))

\* some catalogue row matches family and refresher and passes Also
SomeRowAlso(Also(_)) ==
  \E i \in 1..Len(products) : MatchesFamilyAndRef(products[i]) /\ Also(products[i])

AnyRow(p) == TRUE
RowInWindow(p) == InRangeOrNoRange(p, params.dateRange)
RowAtLocation(p) == products_matchLocation(params.location, p.name)

\* the outcome the stages give when they are looked at in the fixed order
FirstFailingStage ==
  IF ~SomeRowAlso(AnyRow) THEN "none_anywhere"
  ELSE IF ~SomeRowAlso(RowInWindow) THEN "none_in_window"
  ELSE IF ~SomeRowAlso(RowAtLocation) THEN "none_at_location"
  ELSE "combined"

\* C23: the outcome reported for a diagnostics result is the one of the
\* first failing stage in the order family+refresher, date window,
\* location, and the combined failure otherwise; hasInDateAnyLoc and
\* hasInLocAnyDate each imply hasAnyFamilyRef
C23_FirstFailingStageDecides ==
  diag # <<>> =>
    /\ renderDiagnosticsZeroHTML(diag).message = FirstFailingStage
    /\ diag[1].hasInDateAnyLoc => diag[1].hasAnyFamilyRef
    /\ diag[1].hasInLocAnyDate => diag[1].hasAnyFamilyRef

\* a request for Stratford in August 2025 on a catalogue with sessions of
\* the family, none of them in the window and none in Stratford: the date
\* stage fails first
C23_Witness ==
  /\ diag # <<>>
  /\ params.location = "stratford" /\ params.dateRange = <<August2025>>
  /\ diag[1].hasAnyFamilyRef /\ ~diag[1].hasInDateAnyLoc /\ ~diag[1].hasInLocAnyDate
  /\ renderDiagnosticsZeroHTML(diag).message = "none_in_window"

(***************************************************************************)
(* The nearest lists of the diagnostics (checked under SpecNearest).       *)
(***************************************************************************)
\* the parsed start date of a row, in hours since the epoch
StartOf(p) == parseLooseDate(p.start_date)[1]

\* a session of the requested family and flag starting on or after the
\* day the diagnostics ran
QualifiesAsNearest(p) ==
  /\ MatchesFamilyAndRef(p)
  /\ parseLooseDate(p.start_date) # <<>>
  /\ StartOf(p) >= today

\* items holds at most three sessions passing Among, in ascending start
\* order, and no session passing Among that it leaves out starts strictly
\* earlier than one it holds
IsNearestList(items, Among(_)) ==
  /\ Len(items) <= 3
  /\ \A k \in 1..Len(items) : Among(SourceRow(items[k]))
  /\ \A k \in 1..(Len(items) - 1) :
       StartOf(SourceRow(items[k])) <= StartOf(SourceRow(items[k + 1]))
  /\ \A i \in 1..Len(products) :
       (Among(products[i]) /\ \A k \in 1..Len(items) : items[k].id # products[i].id)
         => \A k \in 1..Len(items) : StartOf(products[i]) >= StartOf(SourceRow(items[k]))

QualifiesAtLocation(p) == QualifiesAsNearest(p) /\ RowAtLocation(p)

\* C24: nearestInLocation and nearestAnywhere each hold at most 3 items,
\* all of them sessions of the family and flag starting on or after the
\* current UTC day, in ascending start-date order and the earliest such
\* sessions; the items of nearestInLocation also pass the location predicate
C24_NearestLists ==
  diag # <<>> =>
    /\ IsNearestList(diag[1].nearestAnywhere, QualifiesAsNearest)
    /\ IsNearestList(diag[1].nearestInLocation, QualifiesAtLocation)

\* four future sessions listed out of date order: the list holds the three
\* earliest, the two of 20 August in catalogue order, and leaves out the one
\* of November
C24_Witness ==
  /\ diag # <<>>
  /\ IdsOf(products) = <<5, 3, 9, 8>>
  /\ params.location = NULL
  /\ IdsOf(diag[1].nearestAnywhere) = <<3, 8, 9>>

(***************************************************************************)
(* The standard <-> refresher alternative (checked under SpecNearest).     *)
(***************************************************************************)
\* the flag diagnoseSearch works with: includeRefresher ?? refresher
RequestedRefresherFlag ==
  EffectiveRefresher(params.includeRefresher, expandKeywords(params.courseTerm).refresher)

\* the name holds a refresher-indicating token
HasRefresherToken(p) ==
  \E w \in {"refresher", "renewal", "update", "refresh"} : HasWord(toLowerCase(p.name), w)

\* a session of the family under the window and location of the request
IsAltCandidate(p) ==
  /\ isCourseMatchByFamily(p.name, expandKeywords(params.courseTerm).family)
  /\ RowInWindow(p)
  /\ RowAtLocation(p)

\* C25 as stated: standardAlt holds at most 3 items, sessions of the family
\* under the window and location of the request, without a refresher token
\* when a refresher was requested and with one when the standard course was
C25_AltHasOppositeStatus ==
  diag # <<>> =>
    /\ Len(diag[1].standardAlt) <= 3
    /\ \A k \in 1..Len(diag[1].standardAlt) :
         LET p == SourceRow(diag[1].standardAlt[k])
         IN  /\ IsAltCandidate(p)
             /\ HasRefresherToken(p) <=> (RequestedRefresherFlag # "true")

\* C25 amended: the refresher status of the items is the opposite of the
\* flag when the request carries a flag (true or false); without a flag the
\* items are not filtered by refresher status
C25_AltOppositeWhenFlagGiven ==
  diag # <<>> =>
    /\ Len(diag[1].standardAlt) <= 3
    /\ \A k \in 1..Len(diag[1].standardAlt) :
         LET p == SourceRow(diag[1].standardAlt[k])
         IN  /\ IsAltCandidate(p)
             /\ RequestedRefresherFlag = "true" => ~HasRefresherToken(p)
             /\ RequestedRefresherFlag = "false" => HasRefresherToken(p)

\* a refresher request on four standard sessions: three are offered
C25_Witness ==
  /\ diag # <<>>
  /\ params.courseTerm = "SMSTS Refresher" /\ params.location = NULL
  /\ params.dateRange = <<>>
  /\ IdsOf(products) = <<5, 3, 9, 8>>
  /\ IdsOf(diag[1].standardAlt) = <<3, 8, 9>>

(***************************************************************************)
(* The week and day-of-month rules of the date window (checked under       *)
(* SpecDate).                                                              *)
(***************************************************************************)
\* the text reaches the next-week rule: it matches "next week" and none of
\* the rules tried before it
NextWeekCase ==
  /\ win # <<>>
  /\ dateText # ""
  /\ NextWeekRe(trim(toLowerCase(dateText)))
  /\ ~AnytimeRe(trim(toLowerCase(dateText)))
  /\ ~HasWord(trim(toLowerCase(dateText)), "this month")
  /\ ~HasWord(trim(toLowerCase(dateText)), "next month")

\* the UTC day of the reference instant
DayOfNow == now - (now % HoursPerDay)

\* C26: for a text matching "next week" and any reference instant, the
\* window starts on the first Monday strictly after the UTC day of the
\* instant, 1 to 7 days ahead and exactly 7 days ahead when that day is a
\* Monday, and ends 6 days after its start, on the following Sunday
C26_NextWeekWindow ==
  NextWeekCase =>
    /\ win[1].label = "next week"
    /\ getUTCDay(win[1].start) = 1
    /\ win[1].start % HoursPerDay = 0
    /\ \E k \in 1..7 : win[1].start = DayOfNow + k * HoursPerDay
    /\ getUTCDay(DayOfNow) = 1 => win[1].start = DayOfNow + 7 * HoursPerDay
    /\ win[1].end = win[1].start + 6 * HoursPerDay
    /\ getUTCDay(win[1].end) = 0

\* Monday 1 September 2025, 13:00 UTC: the window is 8 .. 14 September
C26_Witness ==
  /\ NextWeekCase
  /\ now = utcDate(2025, 8, 1) + 13
  /\ getUTCDay(now) = 1
  /\ win[1].start = utcDate(2025, 8, 8)
  /\ win[1].end = utcDate(2025, 8, 14)

\* the text reaches the day-of-month rule: it matches "after|later than|from
\* D <month>" and none of the rules tried before it
DayMonthCase ==
  /\ win # <<>>
  /\ dateText # ""
  /\ DayMonthMatches(trim(toLowerCase(dateText))) # {}
  /\ ~AnytimeRe(trim(toLowerCase(dateText)))
  /\ ~HasWord(trim(toLowerCase(dateText)), "this month")
  /\ ~HasWord(trim(toLowerCase(dateText)), "next month")
  /\ ~NextWeekRe(trim(toLowerCase(dateText)))
  /\ WeeksMatch(trim(toLowerCase(dateText)), "in") = ""
  /\ WeeksMatch(trim(toLowerCase(dateText)), "next") = ""

\* the leftmost match of the day-of-month pattern in the text
DayMonthOfText ==
  LET q == trim(toLowerCase(dateText))
      m == CHOOSE x \in DayMonthMatches(q) : \A z \in DayMonthMatches(q) : x.at <= z.at
  IN  [rel |-> m.rel, day |-> ParseDigits(DayStrOf(q, m)),
       month |-> MonthIndex(m.monthStr)]

\* C27: for a text of the form "after|later than|from D <month>" and any
\* reference instant, the window lies within the named month: it starts on
\* day D of that month for "from" and on the day after D for "after" and
\* "later than", ends on the last day of that month, in the current year
\* unless the named month is before the month of the instant, when it is
\* the next year
C27_DayMonthWindowInsideMonth ==
  DayMonthCase =>
    LET m    == DayMonthOfText
        year == getUTCFullYear(DayOfNow)
                  + (IF m.month < getUTCMonth(DayOfNow) THEN 1 ELSE 0)
    IN  /\ getUTCFullYear(win[1].start) = year
        /\ getUTCMonth(win[1].start) = m.month
        /\ getUTCDate(win[1].start) = (IF m.rel = "from" THEN m.day ELSE m.day + 1)
        /\ getUTCFullYear(win[1].end) = year
        /\ getUTCMonth(win[1].end) = m.month
        /\ getUTCMonth(win[1].end + HoursPerDay) # m.month

(***************************************************************************)
(* Properties of the location rules (checked under SpecLocation).          *)
(***************************************************************************)
\* the normalized facet of the session, NULL when it has none
FacetOfSession == 
  IF detectLocationFacet(sessionName) = NULL THEN NULL
  ELSE products_norm(detectLocationFacet(sessionName))

\* the location predicate as it is described, for the requested location and
\* the session of the state
DescribedLocationMatch ==
  IF requested = NULL THEN TRUE
  ELSE IF requested = "online" THEN FacetOfSession = "online"
  ELSE /\ FacetOfSession # NULL
       /\ \/ Includes(FacetOfSession, requested)
          \/ Includes(requested, FacetOfSession)
          \/ \E k \in 1..Len(AliasesOf(requested)) :
               Includes(FacetOfSession, AliasesOf(requested)[k])

\* C28: matchLocation is true when no location is requested; for "online"
\* it is true iff the facet of the session is exactly online; for a city it
\* is true iff the session has a facet and the facet and the city are
\* substrings of one another or an alias of the city is a substring of the
\* facet; and every search path applies this same predicate
C28_SameLocationPredicateEverywhere ==
  /\ libMatch # <<>> => libMatch[1] = DescribedLocationMatch
  /\ askMatch # <<>> => askMatch[1] = DescribedLocationMatch

\* the user's text, lowercased, as the rules read it
TextRead == products_norm(userText)

\* the text holds one of the no-filter words as a whole word
AsksForAnywhere ==
  \E w \in {"anywhere", "any place", "anyplace", "any"} : HasWord(TextRead, w)

\* the cities of the alias table, in table order, with an alias in the text
CitiesNamed ==
  {i \in 1..Len(CITY_ALIASES) :
     /\ CITY_ALIASES[i].city # "online"
     /\ \E k \in 1..Len(CITY_ALIASES[i].aliases) :
          Includes(TextRead, CITY_ALIASES[i].aliases[k])}

\* C29: detectUserLocationFromText gives null when the text holds the whole
\* word anywhere, any place, anyplace or any, even with an online keyword
\* or a city name in it; otherwise "online" when it holds the whole word
\* online, even with a city name in it; otherwise the first city of the
\* alias table with an alias that is a substring of the text, or null
C29_LocationRulesInPriority ==
  detected # <<>> =>
    detected[1] =
      IF AsksForAnywhere THEN NULL
      ELSE IF HasWord(TextRead, "online") THEN "online"
      ELSE IF CitiesNamed # {} THEN CITY_ALIASES[MinOf(CitiesNamed)].city
      ELSE NULL

\* "any" wins over the online keyword and the city of the text
C29_Witness ==
  /\ userText = "any online course in crawley"
  /\ detected = <<NULL>>

\* the response of a finished request
IsError(r) == "error" \in DOMAIN r.body
IsLimitReply(r) == ~IsError(r) /\ r.body.reply = "tool_call_limit"

HandlerAnswersOnce ==
  /\ Len(res) <= 1
  /\ (pc = "done") <=> (Len(res) = 1)
  /\ llmCalls <= 4
  /\ toolResults.search_courses # <<>> => pc \in {"tools", "done"}
  /\ pc = "done" =>
       /\ req.method # "POST" <=> res[1].status = 405
       /\ (req.method = "POST" /\ req.message = "") <=> res[1].status = 400
       /\ res[1].status \in {400, 405} => llmCalls = 0
       /\ res[1].status \in {200, 400, 405, 500}
       /\ res[1].status = 200 <=> ~IsError(res[1])
       /\ (res[1].status = 200 /\ toolResults.search_courses # <<>>)
            => res[1].body.reply \in {"variant_not_offered", "missing_family",
                                      "results", "none_anywhere", "none_in_window",
                                      "none_at_location", "combined", "zero_results"}
       /\ IsLimitReply(res[1]) =>
            llmCalls = 4 /\ toolResults.search_courses = <<>>
       /\ (~IsError(res[1]) /\ llmCalls = 4 /\ toolResults.search_courses = <<>>
             /\ toolResults.normalize_dates # <<>> /\ res[1].body.reply # "assistant")
            => IsLimitReply(res[1])

====
